---- MODULE Spec2Model ----
(***************************************************************************)
(* Market data feed handler: the SPSC ring buffer, the MiniITCH codec, the *)
(* parser stage's datagram walk and the order book engine.                 *)
(*                                                                         *)
(* Each subsystem has its own specification over its own variables; the    *)
(* variables of the other subsystems stay at their idle values.            *)
(*   SpecQueue  - one producer and one consumer on one SPSCQueue, one      *)
(*                action per atomic load/store and per slot access         *)
(*   SpecCodec  - Encoder::encode into a caller's buffer, then             *)
(*                decode_header and parse of the bytes written             *)
(*   SpecWalk   - ParserStage::run walking the records of one datagram;    *)
(*                SpecWalkFair adds fair scheduling of the parser thread   *)
(*   SpecBook   - OrderBookManager under any sequence of add, cancel,      *)
(*                execute and replace calls                                *)
(*   SpecPipe   - receiver, parser stage, book stage and consumer stage    *)
(*                running concurrently over Q1, Q2 and Q3                  *)
(*   SpecStop   - main() stopping the four stage threads; SpecStopFair     *)
(*                adds fair scheduling of main() and the threads           *)
(*   SpecGen    - MarketSimulator::run generating and batching records;    *)
(*                SpecGenTwice runs the program a second time with the     *)
(*                same seed; SpecGenBatch runs it with draws that fill     *)
(*                the send buffer                                          *)
(***************************************************************************)
EXTENDS Integers, Sequences, FiniteSets, TLC

(***************************************************************************)
(* Bounds of the model                                                     *)
(***************************************************************************)
\* log2 of the queue capacity (Capacity must be a power of two, >= 2)
CapacityLog2 == 2
\* successful pushes the producer makes in one run (more than Capacity, so
\* that the indices wrap around)
MaxPush == 6
\* items are drawn from 0..MaxItem
MaxItem == 1

(***************************************************************************)
(* Arithmetic helpers                                                      *)
(***************************************************************************)
RECURSIVE BitAnd(_, _)
\* a & b on naturals
BitAnd(a, b) ==
    IF a = 0 \/ b = 0 THEN 0
    ELSE (a % 2) * (b % 2) + 2 * BitAnd(a \div 2, b \div 2)

(***************************************************************************)
(* State                                                                   *)
(***************************************************************************)
VARIABLES
    head_,      \* std::atomic<size_t> head_, written by the producer
    tail_,      \* std::atomic<size_t> tail_, written by the consumer
    buffer_,    \* std::array<T, Capacity>, indexed 0..Capacity-1
    p_pc,       \* producer's position inside try_push
    p_head,     \* try_push local: head
    p_item,     \* try_push argument: item
    c_pc,       \* consumer's position inside try_pop
    c_tail,     \* try_pop local: tail
    c_item,     \* try_pop out-parameter: item
    pushed,     \* history: items of the try_push calls that returned true
    popped,     \* history: items of the try_pop calls that returned true
    lastPush,   \* history: result of the last completed try_push
    lastPop     \* history: result of the last completed try_pop

qvars == <<head_, tail_, buffer_, p_pc, p_head, p_item, c_pc, c_tail, c_item,
           pushed, popped, lastPush, lastPop>>

VARIABLES
    e_pc,       \* "start", "encoded", "received" or "parsed"
    e_msg,      \* encode's argument msg
    e_ts,       \* encode's argument ts
    e_buf0,     \* history: the buffer before encode
    e_buf,      \* the buffer; buffer_size is its length
    e_ret,      \* encode's return value
    e_hdr,      \* decode_header's result
    e_out       \* parse's result

evars == <<e_pc, e_msg, e_ts, e_buf0, e_buf, e_ret, e_hdr, e_out>>

VARIABLES
    w_pc,       \* "walk" while inside the inner while loop, then "done"
    w_data,     \* packet.data[0 .. packet.length - 1]; packet.length = Len(w_data)
    w_stale,    \* what packet.data holds from packet.length on
    w_rts,      \* packet.receive_timestamp
    w_offset,   \* the local offset
    w_out,      \* the TimestampedMessages handed to output_.try_push, in order
    w_stop,     \* how the loop was left: "end" (loop condition) or "malformed" (break)
    w_recs,     \* history: the records the datagram was built from
    w_trail,    \* history: the number of bytes that follow the last record
    w_bad       \* history: how the datagram differs from the encoder's bytes

wvars == <<w_pc, w_data, w_stale, w_rts, w_offset, w_out, w_stop, w_recs, w_trail, w_bad>>

VARIABLES
    b_store,    \* OrderBookManager::store_.orders_: OrderId -> Order
    b_books,    \* OrderBookManager::books_: Symbol key -> OrderBook
    b_last      \* history: the last call and its arguments

bvars == <<b_store, b_books, b_last>>

VARIABLES
    pl_received,  \* history: number of datagrams the socket has delivered
    pl_records,   \* history: number of records in those datagrams
    pl_stamps,    \* history: Clock::now_ns() at each datagram's arrival
    q1,           \* Q1, receiver -> parser: the RawPackets queued, oldest first
    q2,           \* Q2, parser -> book stage: the TimestampedMessages queued
    q3,           \* Q3, book stage -> consumer: the BookUpdates queued
    ps_pc,        \* ParserStage::run: "poll" (outer loop) or "walk" (inner loop)
    ps_packet,    \* ParserStage::run local packet
    ps_offset,    \* ParserStage::run local offset, counted in records
    bs_pc,        \* BookStage::run: "poll" or "process"
    bs_tmsg,      \* BookStage::run local tmsg
    bs_processed, \* BookStage::messages_processed_
    cs_update,    \* ConsumerStage::run local update
    cs_updates,   \* history: number of BookUpdates the consumer has taken
    pl_q1drops,   \* history: datagrams whose try_push into Q1 returned false
    pl_q2drops,   \* history: records whose try_push into Q2 returned false
    pl_q3drops    \* history: number of BookUpdates whose try_push into Q3 returned false

pvars == <<pl_received, pl_records, pl_stamps, q1, q2, q3, ps_pc, ps_packet,
           ps_offset, bs_pc, bs_tmsg, bs_processed, cs_update, cs_updates,
           pl_q1drops, pl_q2drops, pl_q3drops>>

VARIABLES
    sd_main,      \* main(): "wait" (for the signal), "clear" / "join" (inside
                  \* the stop() of stage sd_stage), "done"
    sd_stage,     \* index in StageOrder of the stage main() is stopping
    sd_running,   \* running_ of each stage
    sd_pc,        \* position of each stage's thread in its run()
    sd_q1,        \* number of RawPackets in Q1
    sd_q2,        \* number of TimestampedMessages in Q2
    sd_q3,        \* number of BookUpdates in Q3
    sd_left       \* records the parser's inner loop has still to walk

svars == <<sd_main, sd_stage, sd_running, sd_pc, sd_q1, sd_q2, sd_q3, sd_left>>

VARIABLES
    g_pc,         \* MarketSimulator::run: "loop", "batch", "send" or "done"
    g_run,        \* 1 in the first run of the program, 2 in the second
    g_tape,       \* what rng_ has yielded for this seed, one entry per event
    g_sim,        \* the MarketSimulator: next_order_id_, active_orders_,
                  \* active_order_ids_, current_prices_
    g_buffer,     \* run()'s buffer: the records batched so far
    g_total_sent, \* run()'s total_sent
    g_sent,       \* history: the datagrams handed to sender.send in this run
    g_first       \* history: the datagrams the first run sent

gvars == <<g_pc, g_run, g_tape, g_sim, g_buffer, g_total_sent, g_sent, g_first>>

vars == <<qvars, evars, wvars, bvars, pvars, svars, gvars>>

\* what the steps of one subsystem leave alone
nonQueueVars == <<evars, wvars, bvars, pvars, svars, gvars>>
nonCodecVars == <<qvars, wvars, bvars, pvars, svars, gvars>>
nonWalkVars == <<qvars, evars, bvars, pvars, svars, gvars>>
nonBookVars == <<qvars, evars, wvars, pvars, svars, gvars>>
nonPipeVars == <<qvars, evars, wvars, svars, gvars>>
nonStopVars == <<qvars, evars, wvars, bvars, pvars, gvars>>
nonGenVars == <<qvars, evars, wvars, bvars, pvars, svars>>

(***************************************************************************)
(* SPSCQueue<T, Capacity>                                                  *)
(***************************************************************************)
Capacity == 2 ^ CapacityLog2
kMask == Capacity - 1
Items == 0 .. MaxItem
\* a slot of the default-constructed std::array that was never written
Uninit == -1

\* (head + 1) & kMask
NextIndex(i) == BitAnd(i + 1, kMask)

\* try_push's full test: next == tail
IsFullNever(next, tail) == FALSE
IsFull(next, tail) == next = tail

\* try_pop's empty test: tail == head
IsEmptyOffByOne(tail, head) == NextIndex(tail) = head
IsEmpty(tail, head) == tail = head

\* size(): (head - tail + Capacity) & kMask
sizeNoBias == IF head_ >= tail_ THEN BitAnd(head_ - tail_, kMask)
              ELSE BitAnd(tail_ - head_, kMask)
size == BitAnd(head_ - tail_ + Capacity, kMask)

\* empty(): head == tail
empty == head_ = tail_

QueueInit ==
    /\ head_ = 0
    /\ tail_ = 0
    /\ buffer_ = [i \in 0 .. Capacity - 1 |-> Uninit]
    /\ p_pc = "idle" /\ p_head = 0 /\ p_item = 0
    /\ c_pc = "idle" /\ c_tail = 0 /\ c_item = 0
    /\ pushed = <<>>
    /\ popped = <<>>
    /\ lastPush = "none"
    /\ lastPop = "none"

\* try_push: const size_t head = head_.load(relaxed)
P_LoadHead(item) ==
    /\ p_pc = "idle"
    /\ Len(pushed) < MaxPush
    /\ p_pc' = "load_tail"
    /\ p_head' = head_
    /\ p_item' = item
    /\ UNCHANGED <<head_, tail_, buffer_, c_pc, c_tail, c_item,
                   pushed, popped, lastPush, lastPop>>
    /\ UNCHANGED nonQueueVars

\* try_push: next = (head + 1) & kMask; if (next == tail_.load(acquire)) return false
P_LoadTail ==
    /\ p_pc = "load_tail"
    /\ IF IsFull(NextIndex(p_head), tail_)
       THEN /\ p_pc' = "idle"
            /\ p_head' = 0
            /\ p_item' = 0
            /\ lastPush' = "full"
       ELSE /\ p_pc' = "write"
            /\ UNCHANGED <<p_head, p_item, lastPush>>
    /\ UNCHANGED <<head_, tail_, buffer_, c_pc, c_tail, c_item, pushed, popped, lastPop>>
    /\ UNCHANGED nonQueueVars

\* try_push: buffer_[head] = item
P_WriteSlot ==
    /\ p_pc = "write"
    /\ buffer_' = [buffer_ EXCEPT ![p_head] = p_item]
    /\ p_pc' = "store_head"
    /\ UNCHANGED <<head_, tail_, p_head, p_item, c_pc, c_tail, c_item,
                   pushed, popped, lastPush, lastPop>>
    /\ UNCHANGED nonQueueVars

\* try_push: head_.store(next, release); return true
P_StoreHead ==
    /\ p_pc = "store_head"
    /\ head_' = NextIndex(p_head)
    /\ pushed' = Append(pushed, p_item)
    /\ lastPush' = "ok"
    /\ p_pc' = "idle"
    /\ p_head' = 0
    /\ p_item' = 0
    /\ UNCHANGED <<tail_, buffer_, c_pc, c_tail, c_item, popped, lastPop>>
    /\ UNCHANGED nonQueueVars

\* try_pop: const size_t tail = tail_.load(relaxed)
C_LoadTail ==
    /\ c_pc = "idle"
    /\ c_pc' = "load_head"
    /\ c_tail' = tail_
    /\ UNCHANGED <<head_, tail_, buffer_, p_pc, p_head, p_item, c_item,
                   pushed, popped, lastPush, lastPop>>
    /\ UNCHANGED nonQueueVars

\* try_pop: if (tail == head_.load(acquire)) return false
C_LoadHead ==
    /\ c_pc = "load_head"
    /\ IF IsEmpty(c_tail, head_)
       THEN /\ c_pc' = "idle"
            /\ c_tail' = 0
            /\ lastPop' = "empty"
       ELSE /\ c_pc' = "read"
            /\ UNCHANGED <<c_tail, lastPop>>
    /\ UNCHANGED <<head_, tail_, buffer_, p_pc, p_head, p_item, c_item,
                   pushed, popped, lastPush>>
    /\ UNCHANGED nonQueueVars

\* try_pop: item = buffer_[tail]; a slot never written holds an indeterminate value
C_ReadSlot ==
    /\ c_pc = "read"
    /\ IF buffer_[c_tail] = Uninit
       THEN \E v \in Items : c_item' = v
       ELSE c_item' = buffer_[c_tail]
    /\ c_pc' = "store_tail"
    /\ UNCHANGED <<head_, tail_, buffer_, p_pc, p_head, p_item, c_tail,
                   pushed, popped, lastPush, lastPop>>
    /\ UNCHANGED nonQueueVars

\* try_pop: tail_.store((tail + 1) & kMask, release); return true
C_StoreTail ==
    /\ c_pc = "store_tail"
    /\ tail_' = NextIndex(c_tail)
    /\ popped' = Append(popped, c_item)
    /\ lastPop' = "ok"
    /\ c_pc' = "idle"
    /\ c_tail' = 0
    /\ c_item' = 0
    /\ UNCHANGED <<head_, buffer_, p_pc, p_head, p_item, pushed, lastPush>>
    /\ UNCHANGED nonQueueVars

QueueNext ==
    \/ \E item \in Items : P_LoadHead(item)
    \/ P_LoadTail
    \/ P_WriteSlot
    \/ P_StoreHead
    \/ C_LoadTail
    \/ C_LoadHead
    \/ C_ReadSlot
    \/ C_StoreTail


(***************************************************************************)
(* MiniITCH wire protocol: messages.hpp and encoder.hpp                    *)
(*                                                                         *)
(* A field of a packed struct is modelled by its object representation:    *)
(* the sequence of its bytes, little-endian (OrderId and Timestamp 8       *)
(* bytes, Price and Quantity 4, Side 1, Symbol the 8 chars of data[]).     *)
(* LE builds the bytes of a number and FromLE reads a number back.         *)
(***************************************************************************)
RECURSIVE LE(_, _)
\* the w bytes of the unsigned number n, least significant first
LE(n, w) == IF w = 0 THEN <<>> ELSE <<n % 256>> \o LE(n \div 256, w - 1)

RECURSIVE FromLE(_)
\* the unsigned number held by the bytes b, least significant first
FromLE(b) == IF b = <<>> THEN 0 ELSE b[1] + 256 * FromLE(Tail(b))

\* n bytes of value b
Rep(b, n) == [i \in 1 .. n |-> b]

\* Symbol(const char* str): memset 0 then strncpy, for a str of at most 8 chars
Symbol(str) == str \o Rep(0, 8 - Len(str))

\* the byte at 0-based offset i of a packet's data array, of which the first
\* Len(data) bytes were received; the rest of the array holds stale bytes
ByteAt(data, i, stale) == IF i < Len(data) THEN data[i + 1] ELSE stale

\* n bytes read from 0-based offset off
Slice(data, off, n, stale) == [i \in 1 .. n |-> ByteAt(data, off + i - 1, stale)]

\* std::memcpy(dst + off, src, Len(src)) into a buffer that has the room
memcpy(dst, off, src) ==
    [i \in 1 .. Len(dst) |->
        IF i > off /\ i <= off + Len(src) THEN src[i - off] ELSE dst[i]]

\* MsgT::TYPE
AddOrder_TYPE == 65
CancelOrder_TYPE == 88
ExecuteOrder_TYPE == 69
ReplaceOrder_TYPE == 82
TradeMessage_TYPE == 84

\* MsgT::WIRE_SIZE
AddOrder_WIRE_SIZE == 36
CancelOrder_WIRE_SIZE == 19
ExecuteOrder_WIRE_SIZE == 23
ReplaceOrder_WIRE_SIZE == 27
TradeMessage_WIRE_SIZE == 43

Kinds == {"AddOrder", "CancelOrder", "ExecuteOrder", "ReplaceOrder", "TradeMessage"}

TYPE(kind) ==
    CASE kind = "AddOrder" -> AddOrder_TYPE
      [] kind = "CancelOrder" -> CancelOrder_TYPE
      [] kind = "ExecuteOrder" -> ExecuteOrder_TYPE
      [] kind = "ReplaceOrder" -> ReplaceOrder_TYPE
      [] kind = "TradeMessage" -> TradeMessage_TYPE

WIRE_SIZE(kind) ==
    CASE kind = "AddOrder" -> AddOrder_WIRE_SIZE
      [] kind = "CancelOrder" -> CancelOrder_WIRE_SIZE
      [] kind = "ExecuteOrder" -> ExecuteOrder_WIRE_SIZE
      [] kind = "ReplaceOrder" -> ReplaceOrder_WIRE_SIZE
      [] kind = "TradeMessage" -> TradeMessage_WIRE_SIZE

\* the members of each packed struct, in declaration order, with their sizes
HeaderFields == << <<"message_length", 2>>, <<"message_type", 1>>, <<"timestamp", 8>> >>

Fields(kind) ==
    CASE kind = "AddOrder" ->
            << <<"order_id", 8>>, <<"side", 1>>, <<"symbol", 8>>,
               <<"price", 4>>, <<"quantity", 4>> >>
      [] kind = "CancelOrder" -> << <<"order_id", 8>> >>
      [] kind = "ExecuteOrder" -> << <<"order_id", 8>>, <<"exec_quantity", 4>> >>
      [] kind = "ReplaceOrder" ->
            << <<"order_id", 8>>, <<"new_price", 4>>, <<"new_quantity", 4>> >>
      [] kind = "TradeMessage" ->
            << <<"symbol", 8>>, <<"price", 4>>, <<"quantity", 4>>,
               <<"buy_order_id", 8>>, <<"sell_order_id", 8>> >>

RECURSIVE SumWidths(_, _)
\* the total size of the first n members of a member list
SumWidths(fields, n) == IF n = 0 THEN 0 ELSE SumWidths(fields, n - 1) + fields[n][2]

\* sizeof(MessageHeader) under #pragma pack(1)
sizeofMessageHeader == SumWidths(HeaderFields, Len(HeaderFields))

\* sizeof(MsgT) under #pragma pack(1)
sizeof(kind) == SumWidths(Fields(kind), Len(Fields(kind)))

RECURSIVE ConcatFields(_, _, _)
\* the object representation of a struct: its first n members back to back
ConcatFields(fields, rec, n) ==
    IF n = 0 THEN <<>>
    ELSE ConcatFields(fields, rec, n - 1) \o rec[fields[n][1]]

\* the bytes of a message struct (what memcpy reads from &msg)
StructBytes(msg) == ConcatFields(Fields(msg.kind), msg, Len(Fields(msg.kind)))

\* the bytes of a MessageHeader struct
HeaderBytes(header) ==
    LE(header.message_length, 2) \o <<header.message_type>> \o header.timestamp

\* encode's guard: if (buffer_size < wire_size) return 0
BufferTooSmallHeaderOnly(buffer_size, wire_size) == buffer_size < sizeofMessageHeader
BufferTooSmallInclusive(buffer_size, wire_size) == buffer_size <= wire_size
BufferTooSmall(buffer_size, wire_size) == buffer_size < wire_size

\* Encoder::encode(msg, ts, buffer, buffer_size), with buffer_size = Len(buffer):
\* the bytes written and the buffer afterwards
encode(msg, ts, buffer) ==
    LET wire_size == WIRE_SIZE(msg.kind)
    IN  IF BufferTooSmall(Len(buffer), wire_size)
        THEN [ret |-> 0, buffer |-> buffer]
        ELSE LET header == [message_length |-> wire_size,
                            message_type |-> TYPE(msg.kind),
                            timestamp |-> ts]
                 withHeader == memcpy(buffer, 0, HeaderBytes(header))
                 payload == SubSeq(StructBytes(msg), 1, wire_size - sizeofMessageHeader)
             IN  [ret |-> wire_size,
                  buffer |-> memcpy(withHeader, sizeofMessageHeader, payload)]

\* Encoder::decode_header(buffer), buffer = data + off
decode_header(data, off, stale) ==
    LET b == Slice(data, off, sizeofMessageHeader, stale)
    IN  [message_length |-> FromLE(SubSeq(b, 1, 2)),
         message_type |-> b[3],
         timestamp |-> SubSeq(b, 4, 11)]

\* Encoder::peek_message_type(buffer): buffer[2]
peek_message_type(data, off, stale) == ByteAt(data, off + 2, stale)

\* Encoder::decode_payload<MsgT>(payload, msg), payload = data + off:
\* memcpy(&msg, payload, sizeof(msg)), read back member by member
decode_payload(kind, data, off, stale) ==
    LET fields == Fields(kind)
        names == {fields[i][1] : i \in 1 .. Len(fields)}
        index(n) == CHOOSE i \in 1 .. Len(fields) : fields[i][1] = n
    IN  [n \in names \cup {"kind"} |->
            IF n = "kind" THEN kind
            ELSE Slice(data, off + SumWidths(fields, index(n) - 1),
                       fields[index(n)][2], stale)]

\* AddOrder{}: every member value-initialised
DefaultAddOrder ==
    [kind |-> "AddOrder", order_id |-> Rep(0, 8), side |-> Rep(0, 1),
     symbol |-> Rep(0, 8), price |-> Rep(0, 4), quantity |-> Rep(0, 4)]

\* parse's payload pointer: buffer + sizeof(MessageHeader)
PayloadOffsetNoSkip(off) == off
PayloadOffset(off) == off + sizeofMessageHeader

\* Encoder::parse(buffer), buffer = data + off
parse(data, off, stale) ==
    LET header == decode_header(data, off, stale)
        payload == PayloadOffset(off)
    IN  CASE header.message_type = AddOrder_TYPE ->
                decode_payload("AddOrder", data, payload, stale)
          [] header.message_type = CancelOrder_TYPE ->
                decode_payload("CancelOrder", data, payload, stale)
          [] header.message_type = ExecuteOrder_TYPE ->
                decode_payload("ExecuteOrder", data, payload, stale)
          [] header.message_type = ReplaceOrder_TYPE ->
                decode_payload("ReplaceOrder", data, payload, stale)
          [] header.message_type = TradeMessage_TYPE ->
                decode_payload("TradeMessage", data, payload, stale)
          [] OTHER -> DefaultAddOrder


(***************************************************************************)
(* One encode followed by one decode (SpecCodec)                           *)
(***************************************************************************)
\* field values the inputs are drawn from: a number from the tests and the
\* largest value of the width
U64Values == {LE(12345, 8), Rep(255, 8)}
U32Values == {LE(1850500, 4), Rep(255, 4)}
SideValues == {<<1>>, <<2>>}
SymbolValues == {Symbol(<<65, 65, 80, 76>>), Rep(90, 8)}
TimestampValues == {Rep(0, 8), LE(1000000007, 8)}

Messages ==
    [kind : {"AddOrder"}, order_id : U64Values, side : SideValues,
     symbol : SymbolValues, price : U32Values, quantity : U32Values]
    \cup [kind : {"CancelOrder"}, order_id : U64Values]
    \cup [kind : {"ExecuteOrder"}, order_id : U64Values, exec_quantity : U32Values]
    \cup [kind : {"ReplaceOrder"}, order_id : U64Values, new_price : U32Values,
          new_quantity : U32Values]
    \cup [kind : {"TradeMessage"}, symbol : SymbolValues, price : U32Values,
          quantity : U32Values, buy_order_id : U64Values, sell_order_id : U64Values]

\* the largest buffer an encode is given (the longest record and some room)
MaxBufferSize == 45
\* what the buffer holds before encode
FillBytes == {0, 170}
\* type bytes that are no record's tag
UnknownTypes == {0, 66, 90, 255}
KnownTypes == {TYPE(k) : k \in Kinds}

NoHeader == [message_length |-> 0, message_type |-> 0, timestamp |-> <<>>]
NoMessage == [kind |-> "none"]

CodecIdle ==
    /\ e_pc = "idle"
    /\ e_msg = NoMessage
    /\ e_ts = <<>>
    /\ e_buf0 = <<>>
    /\ e_buf = <<>>
    /\ e_ret = 0
    /\ e_hdr = NoHeader
    /\ e_out = NoMessage

CodecInit ==
    /\ e_pc = "start"
    /\ e_msg \in Messages
    /\ e_ts \in TimestampValues
    /\ \E n \in 0 .. MaxBufferSize, fill \in FillBytes : e_buf = Rep(fill, n)
    /\ e_buf0 = e_buf
    /\ e_ret = 0
    /\ e_hdr = NoHeader
    /\ e_out = NoMessage

\* written = Encoder::encode(msg, ts, buffer, sizeof(buffer))
EncodeStep ==
    /\ e_pc = "start"
    /\ LET r == encode(e_msg, e_ts, e_buf)
       IN  /\ e_ret' = r.ret
           /\ e_buf' = r.buffer
    /\ e_pc' = "encoded"
    /\ UNCHANGED <<e_msg, e_ts, e_buf0, e_hdr, e_out>>
    /\ UNCHANGED nonCodecVars

\* the record reaches a decoder with a type byte no encoder writes (the bytes
\* of a datagram are whatever the network delivers)
ReceiveUnknownType(t) ==
    /\ e_pc = "encoded"
    /\ e_ret > 0
    /\ e_buf' = [e_buf EXCEPT ![3] = t]
    /\ e_pc' = "received"
    /\ UNCHANGED <<e_msg, e_ts, e_buf0, e_ret, e_hdr, e_out>>
    /\ UNCHANGED nonCodecVars

\* header = Encoder::decode_header(buffer); message = Encoder::parse(buffer)
ParseStep ==
    /\ e_pc \in {"encoded", "received"}
    /\ e_ret > 0
    /\ e_hdr' = decode_header(e_buf, 0, 0)
    /\ e_out' = parse(e_buf, 0, 0)
    /\ e_pc' = "parsed"
    /\ UNCHANGED <<e_msg, e_ts, e_buf0, e_buf, e_ret>>
    /\ UNCHANGED nonCodecVars

CodecNext ==
    \/ EncodeStep
    \/ \E t \in UnknownTypes : ReceiveUnknownType(t)
    \/ ParseStep

(***************************************************************************)
(* ParserStage::run: the walk over one datagram (SpecWalk)                 *)
(***************************************************************************)
\* records per datagram
MaxRecords == 2
\* bytes after the last record: up to a whole header's worth
MaxTrail == 11

\* one record of each type, and a second AddOrder
WalkRecords ==
    { [msg |-> [kind |-> "AddOrder", order_id |-> LE(1, 8), side |-> <<1>>,
                symbol |-> Symbol(<<65, 65, 80, 76>>), price |-> LE(1850000, 4),
                quantity |-> LE(100, 4)],
       ts |-> LE(5, 8)],
      [msg |-> [kind |-> "AddOrder", order_id |-> Rep(255, 8), side |-> <<2>>,
                symbol |-> Rep(90, 8), price |-> Rep(255, 4), quantity |-> LE(300, 4)],
       ts |-> Rep(255, 8)],
      [msg |-> [kind |-> "CancelOrder", order_id |-> LE(1, 8)], ts |-> LE(6, 8)],
      [msg |-> [kind |-> "ExecuteOrder", order_id |-> LE(12345, 8),
                exec_quantity |-> LE(100, 4)],
       ts |-> LE(7, 8)],
      [msg |-> [kind |-> "ReplaceOrder", order_id |-> LE(555, 8),
                new_price |-> LE(1860000, 4), new_quantity |-> LE(200, 4)],
       ts |-> LE(8, 8)],
      [msg |-> [kind |-> "TradeMessage", symbol |-> Symbol(<<84, 83, 76, 65>>),
                price |-> LE(2500000, 4), quantity |-> LE(50, 4),
                buy_order_id |-> LE(100, 8), sell_order_id |-> LE(200, 8)],
       ts |-> LE(9, 8)] }

RecordLists == UNION {[1 .. n -> WalkRecords] : n \in 0 .. MaxRecords}

\* values a damaged length field takes, and numbers of bytes a datagram loses
BadLengths == {0, 1, 10, 12, 100, 65535}
CutLengths == {1, 9, 20}
StaleBytes == {0, 255}
\* a record's tag replaced by the tag of the record type with the longest body
Retags == {TradeMessage_TYPE}
\* Clock::now_ns() at the packet's arrival
RecvTimestamps == {1000}

Damage(recs) ==
    {[what |-> "none", rec |-> 0, value |-> 0]}
    \cup [what : {"length"}, rec : 1 .. Len(recs), value : BadLengths]
    \cup [what : {"type"}, rec : 1 .. Len(recs), value : UnknownTypes]
    \cup [what : {"cut"}, rec : {Len(recs)} \ {0}, value : CutLengths]
    \cup [what : {"retag"}, rec : {Len(recs)} \ {0}, value : Retags]

RECURSIVE EncodeAll(_, _)
\* the first n records encoded back to back:
\* offset += Encoder::encode(msg, ts, buffer + offset, sizeof(buffer) - offset)
EncodeAll(recs, n) ==
    IF n = 0 THEN <<>>
    ELSE EncodeAll(recs, n - 1)
         \o encode(recs[n].msg, recs[n].ts, Rep(0, WIRE_SIZE(recs[n].msg.kind))).buffer

\* the 0-based offset of record i in the datagram
RecordStart(recs, i) == Len(EncodeAll(recs, i - 1))

\* the datagram as received
Datagram(recs, trail, fill, bad) ==
    LET whole == EncodeAll(recs, Len(recs)) \o Rep(fill, trail)
        at == RecordStart(recs, bad.rec)
    IN  CASE bad.what = "none" -> whole
          [] bad.what = "length" -> memcpy(whole, at, LE(bad.value, 2))
          [] bad.what = "type" -> memcpy(whole, at + 2, <<bad.value>>)
          [] bad.what = "cut" -> SubSeq(whole, 1, Len(whole) - bad.value)
          [] bad.what = "retag" -> memcpy(whole, at + 2, <<bad.value>>)

WalkIdle ==
    /\ w_pc = "idle"
    /\ w_data = <<>>
    /\ w_stale = 0
    /\ w_rts = 0
    /\ w_offset = 0
    /\ w_out = <<>>
    /\ w_stop = "none"
    /\ w_recs = <<>>
    /\ w_trail = 0
    /\ w_bad = [what |-> "none", rec |-> 0, value |-> 0]

\* a packet has been popped from the input queue: size_t offset = 0
WalkInit ==
    /\ w_pc = "walk"
    /\ w_recs \in RecordLists
    /\ w_trail \in 0 .. MaxTrail
    /\ w_bad \in Damage(w_recs)
    /\ w_bad.what \in {"cut", "retag"} => w_trail = 0
    /\ w_bad.what \in {"length", "type"} => w_trail \in {0, MaxTrail}
    /\ \E fill \in FillBytes : w_data = Datagram(w_recs, w_trail, fill, w_bad)
    /\ w_stale \in StaleBytes
    /\ w_rts \in RecvTimestamps
    /\ w_offset = 0
    /\ w_out = <<>>
    /\ w_stop = "none"

\* the loop condition: offset + sizeof(protocol::MessageHeader) <= packet.length
HasHeader(offset, length) == offset + sizeofMessageHeader <= length

\* the break condition:
\* header.message_length == 0 || offset + header.message_length > packet.length
HeaderMalformedZeroOnly(header, offset, length) == header.message_length = 0
HeaderMalformedOverrunOnly(header, offset, length) ==
    offset + header.message_length > length
HeaderMalformed(header, offset, length) ==
    \/ header.message_length = 0
    \/ offset + header.message_length > length

\* offset += header.message_length
NextOffsetHeaderOnly(offset, header) == offset + sizeofMessageHeader
NextOffset(offset, header) == offset + header.message_length

\* the loop condition fails: the walk is over
WalkEnd ==
    /\ w_pc = "walk"
    /\ ~HasHeader(w_offset, Len(w_data))
    /\ w_pc' = "done"
    /\ w_stop' = "end"
    /\ UNCHANGED <<w_data, w_stale, w_rts, w_offset, w_out, w_recs, w_trail, w_bad>>
    /\ UNCHANGED nonWalkVars

\* one iteration that leaves by break
WalkMalformed ==
    /\ w_pc = "walk"
    /\ HasHeader(w_offset, Len(w_data))
    /\ HeaderMalformed(decode_header(w_data, w_offset, w_stale), w_offset, Len(w_data))
    /\ w_pc' = "done"
    /\ w_stop' = "malformed"
    /\ UNCHANGED <<w_data, w_stale, w_rts, w_offset, w_out, w_recs, w_trail, w_bad>>
    /\ UNCHANGED nonWalkVars

\* one full iteration: parse the record, hand it to output_.try_push, advance
WalkEmit ==
    /\ w_pc = "walk"
    /\ HasHeader(w_offset, Len(w_data))
    /\ LET header == decode_header(w_data, w_offset, w_stale)
       IN  /\ ~HeaderMalformed(header, w_offset, Len(w_data))
           /\ w_out' = Append(w_out,
                  [message |-> parse(w_data, w_offset, w_stale),
                   receive_timestamp |-> w_rts,
                   protocol_timestamp |-> header.timestamp])
           /\ w_offset' = NextOffset(w_offset, header)
    /\ UNCHANGED <<w_pc, w_data, w_stale, w_rts, w_stop, w_recs, w_trail, w_bad>>
    /\ UNCHANGED nonWalkVars

WalkNext ==
    \/ WalkEnd
    \/ WalkMalformed
    \/ WalkEmit

(***************************************************************************)
(* OrderStore, OrderBook and OrderBookManager (SpecBook)                   *)
(*                                                                         *)
(* A std::map or std::unordered_map is a function whose domain is the set  *)
(* of keys present.  Quantities stay far below 2^32 in this model.         *)
(***************************************************************************)
\* quantities are drawn from 0..MaxQty (a fill from 0..MaxQty+1)
MaxQty == 2

\* enum class Side
Side_Buy == 1
Side_Sell == 2

\* two order ids: two orders at one level, or one at each of two levels
OrderIds == {1, 2}
Sides == {Side_Buy, Side_Sell}
BookSymbols == {Symbol(<<65, 65, 80, 76>>), Symbol(<<77, 83, 70, 84>>)}
Prices == {1850000, 1851000}
Quantities == 0 .. MaxQty
FillQuantities == 0 .. MaxQty + 1
\* depths asked of get_bid_levels / get_ask_levels: 0..MaxDepth
MaxDepth == 3
Depths == 0 .. MaxDepth

EmptyMap == <<>>
MapPut(m, k, v) == [x \in DOMAIN m \cup {k} |-> IF x = k THEN v ELSE m[x]]
MapErase(m, k) == [x \in DOMAIN m \ {k} |-> m[x]]

\* OrderBook(sym): no levels on either side
NewOrderBook(sym) == [symbol |-> sym, bids |-> EmptyMap, asks |-> EmptyMap]

\* auto& levels = (side == Side::Buy) ? bids_ : asks_
LevelsOf(book, side) == IF side = Side_Buy THEN book.bids ELSE book.asks
WithLevels(book, side, levels) ==
    IF side = Side_Buy THEN [book EXCEPT !.bids = levels]
    ELSE [book EXCEPT !.asks = levels]

\* OrderBook::add_level_quantity(side, price, qty)
add_level_quantity(book, side, price, qty) ==
    LET levels == LevelsOf(book, side)
        lvl == IF price \in DOMAIN levels THEN levels[price]
               ELSE [price |-> 0, total_quantity |-> 0, order_count |-> 0]
    IN  WithLevels(book, side,
            MapPut(levels, price,
                [price |-> price,
                 total_quantity |-> lvl.total_quantity + qty,
                 order_count |-> (lvl.order_count + 1) % 65536]))

\* OrderBook::remove_level_quantity(side, price, qty)
remove_level_quantity(book, side, price, qty) ==
    LET levels == LevelsOf(book, side)
    IN  IF price \notin DOMAIN levels THEN book
        ELSE LET lvl == levels[price]
                 total == IF qty >= lvl.total_quantity THEN 0
                          ELSE lvl.total_quantity - qty
                 count == IF lvl.order_count > 0 THEN lvl.order_count - 1
                          ELSE lvl.order_count
             IN  IF total = 0
                 THEN WithLevels(book, side, MapErase(levels, price))
                 ELSE WithLevels(book, side,
                          MapPut(levels, price,
                              [lvl EXCEPT !.total_quantity = total,
                                          !.order_count = count]))

MaxFromBegin(S) == CHOOSE x \in S : \A y \in S : x <= y
Max(S) == CHOOSE x \in S : \A y \in S : y <= x
Min(S) == CHOOSE x \in S : \A y \in S : x <= y

\* OrderBook::best_bid_price(): bids_.rbegin()->first, or 0
best_bid_price(book) ==
    IF DOMAIN book.bids = {} THEN 0 ELSE Max(DOMAIN book.bids)

\* OrderBook::best_bid_quantity()
best_bid_quantity(book) ==
    IF DOMAIN book.bids = {} THEN 0
    ELSE book.bids[Max(DOMAIN book.bids)].total_quantity

\* OrderBook::best_ask_price(): asks_.begin()->first, or 0
best_ask_price(book) ==
    IF DOMAIN book.asks = {} THEN 0 ELSE Min(DOMAIN book.asks)

\* OrderBook::best_ask_quantity()
best_ask_quantity(book) ==
    IF DOMAIN book.asks = {} THEN 0
    ELSE book.asks[Min(DOMAIN book.asks)].total_quantity

\* OrderBook::bid_order_count(price) and ask_order_count(price)
bid_order_count(book, price) ==
    IF price \in DOMAIN book.bids THEN book.bids[price].order_count ELSE 0
ask_order_count(book, price) ==
    IF price \in DOMAIN book.asks THEN book.asks[price].order_count ELSE 0

RECURSIVE WalkLevels(_, _, _, _)
\* the loop of get_bid_levels / get_ask_levels: push_back(it->second) while
\* the iterator has not reached the end and count < n; keys are the keys not
\* yet visited, fromBack tells rbegin()/rend() from begin()/end()
WalkLevels(levels, keys, n, fromBack) ==
    IF keys = {} \/ n = 0 THEN <<>>
    ELSE LET k == IF fromBack THEN Max(keys) ELSE Min(keys)
         IN  <<levels[k]>> \o WalkLevels(levels, keys \ {k}, n - 1, fromBack)

\* OrderBook::get_bid_levels(n)
get_bid_levelsFromBegin(book, n) == WalkLevels(book.bids, DOMAIN book.bids, n, FALSE)
get_bid_levels(book, n) == WalkLevels(book.bids, DOMAIN book.bids, n, TRUE)

\* OrderBook::get_ask_levels(n)
get_ask_levels(book, n) == WalkLevels(book.asks, DOMAIN book.asks, n, FALSE)

\* a manager that starts over with an empty map when a book is missing
get_or_create_bookAlone(books, sym) ==
    IF sym \in DOMAIN books THEN books ELSE MapPut(EmptyMap, sym, NewOrderBook(sym))

\* OrderBookManager::get_or_create_book(sym), as the books_ map afterwards
get_or_create_book(books, sym) ==
    IF sym \in DOMAIN books THEN books ELSE MapPut(books, sym, NewOrderBook(sym))

\* the manager's state is the pair of its members
Manager(store, books) == [store |-> store, books |-> books]

\* OrderBookManager::add_order(id, side, sym, price, qty)
add_order(m, id, side, sym, price, qty) ==
    LET order == [order_id |-> id, side |-> side, symbol |-> sym, price |-> price,
                  remaining_quantity |-> qty]
        books == get_or_create_book(m.books, sym)
    IN  Manager(MapPut(m.store, id, order),
                [books EXCEPT ![sym] = add_level_quantity(@, side, price, qty)])

\* OrderBookManager::cancel_order(id)
cancel_order(m, id) ==
    IF id \notin DOMAIN m.store THEN m
    ELSE LET order == m.store[id]
             books == IF order.symbol \in DOMAIN m.books
                      THEN [m.books EXCEPT ![order.symbol] =
                               remove_level_quantity(@, order.side, order.price,
                                                     order.remaining_quantity)]
                      ELSE m.books
         IN  Manager(MapErase(m.store, id), books)

\* OrderBookManager::execute_order(id, exec_qty)
execute_order(m, id, exec_qty) ==
    IF id \notin DOMAIN m.store THEN m
    ELSE LET order == m.store[id]
             books == IF order.symbol \in DOMAIN m.books
                      THEN [m.books EXCEPT ![order.symbol] =
                               remove_level_quantity(@, order.side, order.price,
                                                     exec_qty)]
                      ELSE m.books
         IN  IF exec_qty >= order.remaining_quantity
             THEN Manager(MapErase(m.store, id), books)
             ELSE Manager([m.store EXCEPT ![id].remaining_quantity = @ - exec_qty],
                          books)

\* OrderBookManager::replace_order(id, new_price, new_qty)
replace_order(m, id, new_price, new_qty) ==
    IF id \notin DOMAIN m.store THEN m
    ELSE LET order == m.store[id]
             books == IF order.symbol \in DOMAIN m.books
                      THEN [m.books EXCEPT ![order.symbol] =
                               add_level_quantity(
                                   remove_level_quantity(@, order.side, order.price,
                                                         order.remaining_quantity),
                                   order.side, new_price, new_qty)]
                      ELSE m.books
         IN  Manager([m.store EXCEPT ![id].price = new_price,
                                     ![id].remaining_quantity = new_qty],
                     books)

NoCall == [op |-> "none"]

BookIdle ==
    /\ b_store = EmptyMap
    /\ b_books = EmptyMap
    /\ b_last = NoCall

\* a default-constructed OrderBookManager
BookInit == BookIdle

\* manager.add_order(...) with an id that is not live
B_AddOrder(id, side, sym, price, qty) ==
    /\ id \notin DOMAIN b_store
    /\ LET m == add_order(Manager(b_store, b_books), id, side, sym, price, qty)
       IN  /\ b_store' = m.store
           /\ b_books' = m.books
    /\ b_last' = [op |-> "add", id |-> id, side |-> side, symbol |-> sym,
                  price |-> price, qty |-> qty]
    /\ UNCHANGED nonBookVars

\* manager.cancel_order(id)
B_CancelOrder(id) ==
    /\ LET m == cancel_order(Manager(b_store, b_books), id)
       IN  /\ b_store' = m.store
           /\ b_books' = m.books
    /\ b_last' = [op |-> "cancel", id |-> id]
    /\ UNCHANGED nonBookVars

\* manager.execute_order(id, exec_qty)
B_ExecuteOrder(id, exec_qty) ==
    /\ LET m == execute_order(Manager(b_store, b_books), id, exec_qty)
       IN  /\ b_store' = m.store
           /\ b_books' = m.books
    /\ b_last' = [op |-> "execute", id |-> id, qty |-> exec_qty]
    /\ UNCHANGED nonBookVars

\* manager.replace_order(id, new_price, new_qty)
B_ReplaceOrderUpsert(id, new_price, new_qty) ==
    /\ LET m0 == Manager(b_store, b_books)
           m == IF id \in DOMAIN b_store
                THEN replace_order(m0, id, new_price, new_qty)
                ELSE add_order(m0, id, Side_Buy, CHOOSE sym \in BookSymbols : TRUE,
                               new_price, new_qty)
       IN  /\ b_store' = m.store
           /\ b_books' = m.books
    /\ b_last' = [op |-> "replace", id |-> id, price |-> new_price, qty |-> new_qty]
    /\ UNCHANGED nonBookVars
B_ReplaceOrder(id, new_price, new_qty) ==
    /\ LET m == replace_order(Manager(b_store, b_books), id, new_price, new_qty)
       IN  /\ b_store' = m.store
           /\ b_books' = m.books
    /\ b_last' = [op |-> "replace", id |-> id, price |-> new_price, qty |-> new_qty]
    /\ UNCHANGED nonBookVars

BookNext ==
    \/ \E id \in OrderIds, side \in Sides, sym \in BookSymbols, price \in Prices,
          qty \in Quantities : B_AddOrder(id, side, sym, price, qty)
    \/ \E id \in OrderIds : B_CancelOrder(id)
    \/ \E id \in OrderIds, exec_qty \in FillQuantities : B_ExecuteOrder(id, exec_qty)
    \/ \E id \in OrderIds, new_price \in Prices, new_qty \in Quantities :
          B_ReplaceOrder(id, new_price, new_qty)

(***************************************************************************)
(* The consumer pipeline: receiver, parser stage, book stage, consumer     *)
(* stage and the three queues between them (SpecPipe)                      *)
(*                                                                         *)
(* A queue is the sequence of items pushed and not yet popped; a datagram  *)
(* is the list of its well-formed records, already decoded.                *)
(***************************************************************************)
\* log2 of the capacity of Q1 (network to parser), of Q2 (parser to book)
\* and of Q3 (book to consumer)
Q1CapacityLog2 == 1
Q2CapacityLog2 == 2
Q3CapacityLog2 == 2
\* datagrams delivered by the socket in one run
MaxDatagrams == 2

Q1Capacity == 2 ^ Q1CapacityLog2
Q2Capacity == 2 ^ Q2CapacityLog2
Q3Capacity == 2 ^ Q3CapacityLog2

\* a queue that hands out the newest item first
TryPushFront(q, capacity, item) ==
    IF Len(q) >= capacity - 1 THEN [ok |-> FALSE, queue |-> q]
    ELSE [ok |-> TRUE, queue |-> <<item>> \o q]

\* SPSCQueue<T, capacity>::try_push on a queue holding the items q: false
\* when capacity - 1 items are queued, else the item goes to the back
TryPush(q, capacity, item) ==
    IF Len(q) >= capacity - 1 THEN [ok |-> FALSE, queue |-> q]
    ELSE [ok |-> TRUE, queue |-> Append(q, item)]

PipeAAPL == Symbol(<<65, 65, 80, 76>>)
PipeMSFT == Symbol(<<77, 83, 70, 84>>)

\* one record of a datagram: its header's timestamp and its decoded message
Rec(ts, message) == [timestamp |-> ts, message |-> message]

\* the datagrams the socket delivers, as the producer batches them
PipeDatagrams ==
    { << Rec(1, [kind |-> "AddOrder", order_id |-> 1, side |-> Side_Buy,
                 symbol |-> PipeAAPL, price |-> 1850000, quantity |-> 2]),
         Rec(2, [kind |-> "AddOrder", order_id |-> 2, side |-> Side_Sell,
                 symbol |-> PipeMSFT, price |-> 1851000, quantity |-> 1]) >>,
      << Rec(3, [kind |-> "ExecuteOrder", order_id |-> 1, exec_quantity |-> 1]),
         Rec(4, [kind |-> "CancelOrder", order_id |-> 2]) >>,
      << Rec(5, [kind |-> "ReplaceOrder", order_id |-> 1, new_price |-> 1851000,
                 new_quantity |-> 1]),
         Rec(6, [kind |-> "TradeMessage", symbol |-> PipeAAPL, price |-> 1850000,
                 quantity |-> 1, buy_order_id |-> 1, sell_order_id |-> 2]) >>,
      << Rec(7, [kind |-> "CancelOrder", order_id |-> 1]) >> }

\* values Clock::now_ns() returns
ClockValues == {1000, 2000}

NoPacket == [id |-> 0, records |-> <<>>, receive_timestamp |-> 0]
NoTmsg == [message |-> [kind |-> "none"], receive_timestamp |-> 0,
           protocol_timestamp |-> 0, origin |-> <<0, 0>>]
NoUpdate == [symbol |-> <<>>, best_bid |-> 0, best_bid_qty |-> 0, best_ask |-> 0,
             best_ask_qty |-> 0, receive_timestamp |-> 0,
             book_update_timestamp |-> 0, origin |-> <<0, 0>>]

PipeIdle ==
    /\ pl_received = 0
    /\ pl_records = 0
    /\ pl_stamps = <<>>
    /\ q1 = <<>> /\ q2 = <<>> /\ q3 = <<>>
    /\ ps_pc = "poll" /\ ps_packet = NoPacket /\ ps_offset = 0
    /\ bs_pc = "poll" /\ bs_tmsg = NoTmsg /\ bs_processed = 0
    /\ cs_update = NoUpdate /\ cs_updates = 0
    /\ pl_q1drops = {} /\ pl_q2drops = {} /\ pl_q3drops = 0

\* all four stages started, nothing received yet
PipeInit == PipeIdle

\* MulticastReceiver::do_receive's handler and the callback NetworkStage::run
\* installs: stamp the packet, output_queue_.try_push(packet), result ignored
Receive(records, now) ==
    /\ pl_received < MaxDatagrams
    /\ pl_received' = pl_received + 1
    /\ pl_records' = pl_records + Len(records)
    /\ pl_stamps' = Append(pl_stamps, now)
    /\ LET packet == [id |-> pl_received + 1, records |-> records,
                      receive_timestamp |-> now]
           r == TryPush(q1, Q1Capacity, packet)
       IN  /\ q1' = r.queue
           /\ pl_q1drops' = IF r.ok THEN pl_q1drops ELSE pl_q1drops \cup {packet.id}
    /\ UNCHANGED <<q2, q3, ps_pc, ps_packet, ps_offset, bs_pc, bs_tmsg, bs_processed,
                   cs_update, cs_updates, pl_q2drops, pl_q3drops>>
    /\ UNCHANGED <<nonPipeVars, bvars>>

\* ParserStage::run: input_.try_pop(packet) succeeded; offset = 0
ParserPop ==
    /\ ps_pc = "poll"
    /\ q1 # <<>>
    /\ ps_packet' = Head(q1)
    /\ q1' = Tail(q1)
    /\ ps_offset' = 0
    /\ ps_pc' = "walk"
    /\ UNCHANGED <<pl_received, pl_records, pl_stamps,
                   q2, q3, bs_pc, bs_tmsg, bs_processed,
                   cs_update, cs_updates, pl_q1drops, pl_q2drops, pl_q3drops>>
    /\ UNCHANGED <<nonPipeVars, bvars>>

\* ParserStage::run, one pass of the inner loop over a well-formed record:
\* build tmsg, output_.try_push(tmsg) with the result ignored, advance
ParserEmit ==
    /\ ps_pc = "walk"
    /\ ps_offset < Len(ps_packet.records)
    /\ LET rec == ps_packet.records[ps_offset + 1]
           tmsg == [message |-> rec.message,
                    receive_timestamp |-> ps_packet.receive_timestamp,
                    protocol_timestamp |-> rec.timestamp,
                    origin |-> <<ps_packet.id, ps_offset + 1>>]
           r == TryPush(q2, Q2Capacity, tmsg)
       IN  /\ q2' = r.queue
           /\ pl_q2drops' = IF r.ok THEN pl_q2drops
                            ELSE pl_q2drops \cup {tmsg.origin}
    /\ ps_offset' = ps_offset + 1
    /\ UNCHANGED <<pl_received, pl_records, pl_stamps,
                   q1, q3, ps_pc, ps_packet, bs_pc,
                   bs_tmsg, bs_processed, cs_update, cs_updates, pl_q1drops,
                   pl_q3drops>>
    /\ UNCHANGED <<nonPipeVars, bvars>>

\* ParserStage::run: the inner loop's condition fails, back to polling Q1
ParserEnd ==
    /\ ps_pc = "walk"
    /\ ps_offset >= Len(ps_packet.records)
    /\ ps_pc' = "poll"
    /\ UNCHANGED <<pl_received, pl_records, pl_stamps,
                   q1, q2, q3, ps_packet, ps_offset,
                   bs_pc, bs_tmsg, bs_processed, cs_update, cs_updates,
                   pl_q1drops, pl_q2drops, pl_q3drops>>
    /\ UNCHANGED <<nonPipeVars, bvars>>

\* BookStage::run: input_.try_pop(tmsg) succeeded
BookPop ==
    /\ bs_pc = "poll"
    /\ q2 # <<>>
    /\ bs_tmsg' = Head(q2)
    /\ q2' = Tail(q2)
    /\ bs_pc' = "process"
    /\ UNCHANGED <<pl_received, pl_records, pl_stamps,
                   q1, q3, ps_pc, ps_packet, ps_offset,
                   bs_processed, cs_update, cs_updates, pl_q1drops, pl_q2drops,
                   pl_q3drops>>
    /\ UNCHANGED <<nonPipeVars, bvars>>

\* BookStage::process_message: the call made on book_manager_
Applied(m, msg) ==
    CASE msg.kind = "AddOrder" ->
           add_order(m, msg.order_id, msg.side, msg.symbol, msg.price, msg.quantity)
      [] msg.kind = "CancelOrder" -> cancel_order(m, msg.order_id)
      [] msg.kind = "ExecuteOrder" -> execute_order(m, msg.order_id, msg.exec_quantity)
      [] msg.kind = "ReplaceOrder" ->
           replace_order(m, msg.order_id, msg.new_price, msg.new_quantity)
      [] OTHER -> m

\* BookStage::process_message: the symbols emit_book_update is called with
\* (none or one): the AddOrder's symbol, or the symbol of the order found
\* before a cancel, execute or replace
EmitSymbols(m, msg) ==
    CASE msg.kind = "AddOrder" -> {msg.symbol}
      [] msg.kind \in {"CancelOrder", "ExecuteOrder", "ReplaceOrder"} ->
           IF msg.order_id \in DOMAIN m.store THEN {m.store[msg.order_id].symbol}
           ELSE {}
      [] OTHER -> {}

\* BookStage::emit_book_update: the BookUpdate built for sym while tmsg is
\* processed; origin (the datagram and record the event came from) is not
\* a field of the struct, it is carried along to tell updates apart
MakeUpdate(m, sym, tmsg, now) ==
    [symbol |-> sym,
     best_bid |-> best_bid_price(m.books[sym]),
     best_bid_qty |-> best_bid_quantity(m.books[sym]),
     best_ask |-> best_ask_price(m.books[sym]),
     best_ask_qty |-> best_ask_quantity(m.books[sym]),
     receive_timestamp |-> tmsg.receive_timestamp,
     book_update_timestamp |-> now,
     origin |-> tmsg.origin]

\* the call process_message makes, as the history variable b_last records it
CallOf(msg) ==
    CASE msg.kind = "AddOrder" ->
           [op |-> "add", id |-> msg.order_id, side |-> msg.side,
            symbol |-> msg.symbol, price |-> msg.price, qty |-> msg.quantity]
      [] msg.kind = "CancelOrder" -> [op |-> "cancel", id |-> msg.order_id]
      [] msg.kind = "ExecuteOrder" ->
           [op |-> "execute", id |-> msg.order_id, qty |-> msg.exec_quantity]
      [] msg.kind = "ReplaceOrder" ->
           [op |-> "replace", id |-> msg.order_id, price |-> msg.new_price,
            qty |-> msg.new_quantity]
      [] OTHER -> b_last

\* BookStage::run: process_message(tmsg), with emit_book_update's
\* output_.try_push(update) (result ignored), then messages_processed_ + 1
BookProcess(now) ==
    /\ bs_pc = "process"
    /\ LET m0 == Manager(b_store, b_books)
           m == Applied(m0, bs_tmsg.message)
           syms == {sym \in EmitSymbols(m0, bs_tmsg.message) : sym \in DOMAIN m.books}
       IN  /\ b_store' = m.store
           /\ b_books' = m.books
           /\ IF syms = {} THEN UNCHANGED <<q3, pl_q3drops>>
              ELSE LET sym == CHOOSE x \in syms : TRUE
                       r == TryPush(q3, Q3Capacity, MakeUpdate(m, sym, bs_tmsg, now))
                   IN  /\ q3' = r.queue
                       /\ pl_q3drops' = IF r.ok THEN pl_q3drops ELSE pl_q3drops + 1
    /\ b_last' = CallOf(bs_tmsg.message)
    /\ bs_processed' = bs_processed + 1
    /\ bs_pc' = "poll"
    /\ UNCHANGED <<pl_received, pl_records, pl_stamps,
                   q1, q2, ps_pc, ps_packet, ps_offset,
                   bs_tmsg, cs_update, cs_updates, pl_q1drops, pl_q2drops>>
    /\ UNCHANGED nonPipeVars

\* ConsumerStage::run: input_.try_pop(update) succeeded
ConsumerPop ==
    /\ q3 # <<>>
    /\ cs_update' = Head(q3)
    /\ q3' = Tail(q3)
    /\ cs_updates' = cs_updates + 1
    /\ UNCHANGED <<pl_received, pl_records, pl_stamps,
                   q1, q2, ps_pc, ps_packet, ps_offset,
                   bs_pc, bs_tmsg, bs_processed, pl_q1drops, pl_q2drops,
                   pl_q3drops>>
    /\ UNCHANGED <<nonPipeVars, bvars>>

PipeNext ==
    \/ \E records \in PipeDatagrams, now \in ClockValues : Receive(records, now)
    \/ ParserPop
    \/ ParserEmit
    \/ ParserEnd
    \/ BookPop
    \/ \E now \in ClockValues : BookProcess(now)
    \/ ConsumerPop

(***************************************************************************)
(* Shutdown of the pipeline: main() and the four stage threads (SpecStop,  *)
(* SpecStopFair)                                                           *)
(*                                                                         *)
(* Only what decides whether a thread leaves its loop is kept: each        *)
(* queue is the number of items it holds, a datagram is the number of      *)
(* records it carries.                                                     *)
(***************************************************************************)
\* the order of the stop() calls in main()
StageOrder == <<"network", "parser", "book", "consumer">>
Stages == {StageOrder[i] : i \in 1 .. Len(StageOrder)}

\* try_push on a queue holding n items: the number of items afterwards
PushCount(n, capacity) == IF n >= capacity - 1 THEN n ELSE n + 1

\* all four stages started (start() sets running_ and spawns the thread),
\* main() waiting for the signal
StopInit ==
    /\ sd_main = "wait"
    /\ sd_stage = 1
    /\ sd_running = [s \in Stages |-> TRUE]
    /\ sd_pc = [s \in Stages |-> "top"]
    /\ sd_q1 = 0 /\ sd_q2 = 0 /\ sd_q3 = 0
    /\ sd_left = 0

StopIdle == StopInit

\* signal_handler clears g_running and main() leaves its wait loop
SignalHandler ==
    /\ sd_main = "wait"
    /\ sd_main' = "clear"
    /\ UNCHANGED <<sd_stage, sd_running, sd_pc, sd_q1, sd_q2, sd_q3, sd_left>>
    /\ UNCHANGED nonStopVars

\* Stage::stop(): running_ = false
StopClearFlag ==
    /\ sd_main = "clear"
    /\ sd_running' = [sd_running EXCEPT ![StageOrder[sd_stage]] = FALSE]
    /\ sd_main' = "join"
    /\ UNCHANGED <<sd_stage, sd_pc, sd_q1, sd_q2, sd_q3, sd_left>>
    /\ UNCHANGED nonStopVars

\* Stage::stop(): thread_.join() returns once the thread has left run();
\* main() goes on to the next stop(), or past the last one
StopJoin ==
    /\ sd_main = "join"
    /\ sd_pc[StageOrder[sd_stage]] = "exited"
    /\ IF sd_stage = Len(StageOrder)
       THEN sd_main' = "done" /\ UNCHANGED sd_stage
       ELSE sd_main' = "clear" /\ sd_stage' = sd_stage + 1
    /\ UNCHANGED <<sd_running, sd_pc, sd_q1, sd_q2, sd_q3, sd_left>>
    /\ UNCHANGED nonStopVars

\* while (running_) at the top of a stage's loop: into the body, or out of
\* run() (for the network stage after receiver.stop())
LoopTest(stage, body) ==
    /\ sd_pc[stage] = "top"
    /\ sd_pc' = [sd_pc EXCEPT ![stage] = IF sd_running[stage] THEN body
                                         ELSE "exited"]
    /\ UNCHANGED <<sd_main, sd_stage, sd_running, sd_q1, sd_q2, sd_q3, sd_left>>
    /\ UNCHANGED nonStopVars

\* NetworkStage::run: while (running_)
NetworkLoopTest == LoopTest("network", "run_for")

\* inside io_ctx.run_for: a datagram arrives and the callback runs
\* output_queue_.try_push(packet)
NetworkReceive ==
    /\ sd_pc["network"] = "run_for"
    /\ sd_q1' = PushCount(sd_q1, Q1Capacity)
    /\ UNCHANGED <<sd_main, sd_stage, sd_running, sd_pc, sd_q2, sd_q3, sd_left>>
    /\ UNCHANGED nonStopVars

\* io_ctx.run_for(100ms) returns when its time is up; io_ctx.restart()
NetworkRunForReturns ==
    /\ sd_pc["network"] = "run_for"
    /\ sd_pc' = [sd_pc EXCEPT !["network"] = "top"]
    /\ UNCHANGED <<sd_main, sd_stage, sd_running, sd_q1, sd_q2, sd_q3, sd_left>>
    /\ UNCHANGED nonStopVars

\* a loop that never looks at running_
ParserLoopForever ==
    /\ sd_pc["parser"] = "top"
    /\ sd_pc' = [sd_pc EXCEPT !["parser"] = "pop"]
    /\ UNCHANGED <<sd_main, sd_stage, sd_running, sd_q1, sd_q2, sd_q3, sd_left>>
    /\ UNCHANGED nonStopVars

\* ParserStage::run: while (running_)
ParserLoopTest == LoopTest("parser", "pop")

\* ParserStage::run: input_.try_pop(packet) fails (yield, continue) or hands
\* over a datagram of some number of records
ParserTryPop ==
    /\ sd_pc["parser"] = "pop"
    /\ IF sd_q1 = 0
       THEN /\ sd_pc' = [sd_pc EXCEPT !["parser"] = "top"]
            /\ UNCHANGED <<sd_q1, sd_left>>
       ELSE /\ sd_q1' = sd_q1 - 1
            /\ sd_left' \in 0 .. MaxRecords
            /\ sd_pc' = [sd_pc EXCEPT !["parser"] = "walk"]
    /\ UNCHANGED <<sd_main, sd_stage, sd_running, sd_q2, sd_q3>>
    /\ UNCHANGED nonStopVars

\* ParserStage::run, inner loop: one record parsed, output_.try_push(tmsg)
ParserWalkRecord ==
    /\ sd_pc["parser"] = "walk"
    /\ sd_left > 0
    /\ sd_left' = sd_left - 1
    /\ sd_q2' = PushCount(sd_q2, Q2Capacity)
    /\ UNCHANGED <<sd_main, sd_stage, sd_running, sd_pc, sd_q1, sd_q3>>
    /\ UNCHANGED nonStopVars

\* ParserStage::run, inner loop left (no further header, or break)
ParserWalkDone ==
    /\ sd_pc["parser"] = "walk"
    /\ sd_left = 0
    /\ sd_pc' = [sd_pc EXCEPT !["parser"] = "top"]
    /\ UNCHANGED <<sd_main, sd_stage, sd_running, sd_q1, sd_q2, sd_q3, sd_left>>
    /\ UNCHANGED nonStopVars

\* BookStage::run: while (running_)
BookLoopTest == LoopTest("book", "pop")

\* BookStage::run: input_.try_pop(tmsg) fails (yield, continue) or succeeds
BookTryPop ==
    /\ sd_pc["book"] = "pop"
    /\ IF sd_q2 = 0
       THEN /\ sd_pc' = [sd_pc EXCEPT !["book"] = "top"]
            /\ UNCHANGED sd_q2
       ELSE /\ sd_q2' = sd_q2 - 1
            /\ sd_pc' = [sd_pc EXCEPT !["book"] = "process"]
    /\ UNCHANGED <<sd_main, sd_stage, sd_running, sd_q1, sd_q3, sd_left>>
    /\ UNCHANGED nonStopVars

\* BookStage::run: process_message(tmsg), which may end in
\* emit_book_update's output_.try_push(update); messages_processed_ + 1
BookProcessMessage(emits) ==
    /\ sd_pc["book"] = "process"
    /\ sd_q3' = IF emits THEN PushCount(sd_q3, Q3Capacity) ELSE sd_q3
    /\ sd_pc' = [sd_pc EXCEPT !["book"] = "top"]
    /\ UNCHANGED <<sd_main, sd_stage, sd_running, sd_q1, sd_q2, sd_left>>
    /\ UNCHANGED nonStopVars

\* ConsumerStage::run: while (running_)
ConsumerLoopTest == LoopTest("consumer", "pop")

\* ConsumerStage::run: input_.try_pop(update) and the statistics, or yield;
\* then the periodic report
ConsumerTryPop ==
    /\ sd_pc["consumer"] = "pop"
    /\ sd_q3' = IF sd_q3 = 0 THEN 0 ELSE sd_q3 - 1
    /\ sd_pc' = [sd_pc EXCEPT !["consumer"] = "top"]
    /\ UNCHANGED <<sd_main, sd_stage, sd_running, sd_q1, sd_q2, sd_left>>
    /\ UNCHANGED nonStopVars

\* the steps of main() after the signal
MainStep == StopClearFlag \/ StopJoin
\* the steps of each thread; a datagram's arrival is not one of them
NetworkStep == NetworkLoopTest \/ NetworkRunForReturns
ParserStep == ParserLoopTest \/ ParserTryPop \/ ParserWalkRecord \/ ParserWalkDone
BookStep == BookLoopTest \/ BookTryPop \/ \E emits \in BOOLEAN : BookProcessMessage(emits)
ConsumerStep == ConsumerLoopTest \/ ConsumerTryPop

StopNext ==
    \/ SignalHandler
    \/ StopClearFlag
    \/ StopJoin
    \/ NetworkLoopTest
    \/ NetworkReceive
    \/ NetworkRunForReturns
    \/ ParserLoopTest
    \/ ParserTryPop
    \/ ParserWalkRecord
    \/ ParserWalkDone
    \/ BookLoopTest
    \/ BookTryPop
    \/ \E emits \in BOOLEAN : BookProcessMessage(emits)
    \/ ConsumerLoopTest
    \/ ConsumerTryPop

(***************************************************************************)
(* MarketSimulator, the producer's generator (SpecGen, SpecGenTwice)       *)
(*                                                                         *)
(* The output of std::mt19937 is fixed by the seed: g_tape holds, event by *)
(* event, the values the distributions returned, and a second run with the *)
(* same seed reads the same values again.  Clock readings are inputs of    *)
(* each step.  A record is kept as (timestamp, message); Encoder::encode   *)
(* turns equal records into equal bytes and different ones into different  *)
(* bytes.                                                                  *)
(***************************************************************************)
\* events generated in one run (the run's duration is over by then)
MaxGenEvents == 2

\* uint8_t buffer[1400] in MarketSimulator::run
SimBufferSize == 1400
\* RawPacket::MAX_SIZE, the bytes a received datagram may have
RawPacket_MAX_SIZE == 1500

\* SimConfig::symbols and SimConfig::initial_prices
SimSymbols == <<PipeAAPL, PipeMSFT>>
SimInitialPrices == <<1850000, 4100000>>

\* values the distributions return: type_dist, side_dist(0, 1),
\* jitter(-5000, 5000), qty_dist(10, 1000) and qty_dist(10, 500) (always 10
\* here), walk(-50, 50); fill_dist(1, q) returns 1 (fill 0) or q (fill 1)
TypeDraws == 0 .. 4
SideDraws == {0, 1}
JitterDraws == {-5000, 5000}
QtyDraws == {10}
FillDraws == {0, 1}
WalkDraws == {-50, 50}
TradeQtyDraws == {10}

\* readings of the clocks while one event is generated: what
\* Clock::nanos_since_midnight() returns, and whether steady_clock::now() is
\* still before next_send (the sender is ahead of its schedule)
GenClock == {[nanos |-> 5, ahead |-> TRUE], [nanos |-> 6, ahead |-> FALSE]}

\* the values drawn while one event is generated; what the event does not
\* draw stays 0
NoDraw == [type |-> 0, symbol |-> 0, side |-> 0, jitter |-> 0, qty |-> 0,
           pick |-> 0, fill |-> 0, walk |-> 0]

\* MarketSimulator(config): rng_ seeded, next_order_id_ = 1, nothing active,
\* current_prices_ from initial_prices
NewSimulator ==
    [next_order_id_ |-> 1,
     active_orders_ |-> EmptyMap,
     active_order_ids_ |-> <<>>,
     current_prices_ |-> [i \in 1 .. Len(SimSymbols) |-> SimInitialPrices[i]]]

\* the draws the generation of one event of type t makes in state sim
DrawsOfType(sim, t) ==
    LET n == Len(sim.active_order_ids_)
        add == {[NoDraw EXCEPT !.type = t, !.symbol = s, !.side = sd,
                               !.jitter = j, !.qty = q] :
                    s \in 0 .. Len(SimSymbols) - 1, sd \in SideDraws,
                    j \in JitterDraws, q \in QtyDraws}
    IN  CASE t = 0 \/ (t \in 1 .. 3 /\ n = 0) -> add
          [] t = 1 -> {[NoDraw EXCEPT !.type = t, !.pick = p] : p \in 0 .. n - 1}
          [] t = 2 -> {[NoDraw EXCEPT !.type = t, !.pick = p, !.fill = f] :
                           p \in 0 .. n - 1, f \in FillDraws}
          [] t = 3 -> {[NoDraw EXCEPT !.type = t, !.pick = p, !.jitter = j,
                                      !.qty = q] :
                           p \in 0 .. n - 1, j \in JitterDraws, q \in QtyDraws}
          [] t = 4 -> {[NoDraw EXCEPT !.type = t, !.symbol = s, !.qty = q,
                                      !.walk = w] :
                           s \in 0 .. Len(SimSymbols) - 1, q \in TradeQtyDraws,
                           w \in WalkDraws}

Draws(sim) == UNION {DrawsOfType(sim, t) : t \in TypeDraws}

RECURSIVE OffsetOf(_)
\* offset after the records of buffer were encoded back to back
OffsetOf(buffer) ==
    IF buffer = <<>> THEN 0
    ELSE OffsetOf(SubSeq(buffer, 1, Len(buffer) - 1))
         + WIRE_SIZE(buffer[Len(buffer)].message.kind)

\* Encoder::encode(msg, ts, buffer + offset, max_size - offset): bytes written
Written(msg, buffer) ==
    IF BufferTooSmall(SimBufferSize - OffsetOf(buffer), WIRE_SIZE(msg.kind)) THEN 0
    ELSE WIRE_SIZE(msg.kind)

\* std::remove + erase of id from active_order_ids_
RemoveId(ids, id) == SelectSeq(ids, LAMBDA x : x # id)

\* MarketSimulator::pick_random_symbol: index into config_.symbols
pick_random_symbol(d) == d.symbol + 1

\* MarketSimulator::jitter_price
jitter_price(base, d) == IF base + d.jitter > 1 THEN base + d.jitter ELSE 1

\* a pick that hands out the first id ever issued when nothing is active
pick_random_active_orderStale(sim, d) ==
    IF sim.active_order_ids_ = <<>> THEN 1
    ELSE sim.active_order_ids_[(d.pick % Len(sim.active_order_ids_)) + 1]

\* MarketSimulator::pick_random_active_order: 0 when nothing is active
pick_random_active_order(sim, d) ==
    IF sim.active_order_ids_ = <<>> THEN 0
    ELSE sim.active_order_ids_[(d.pick % Len(sim.active_order_ids_)) + 1]

\* MarketSimulator::generate_add_order
generate_add_order(sim, buffer, d, ts) ==
    LET sym == pick_random_symbol(d)
        msg == [kind |-> "AddOrder", order_id |-> sim.next_order_id_,
                side |-> IF d.side # 0 THEN Side_Buy ELSE Side_Sell,
                symbol |-> SimSymbols[sym],
                price |-> jitter_price(sim.current_prices_[sym], d),
                quantity |-> d.qty]
        sim1 == [sim EXCEPT !.next_order_id_ = @ + 1]
    IN  IF Written(msg, buffer) > 0
        THEN [sim |-> [sim1 EXCEPT
                         !.active_orders_ =
                             MapPut(@, msg.order_id,
                                    [id |-> msg.order_id, side |-> msg.side,
                                     symbol |-> msg.symbol, price |-> msg.price,
                                     quantity |-> msg.quantity]),
                         !.active_order_ids_ = Append(@, msg.order_id)],
              buffer |-> Append(buffer, Rec(ts, msg))]
        ELSE [sim |-> sim1, buffer |-> buffer]

\* MarketSimulator::generate_cancel_order
generate_cancel_order(sim, buffer, d, ts) ==
    LET id == pick_random_active_order(sim, d)
        msg == [kind |-> "CancelOrder", order_id |-> id]
    IN  IF id = 0 THEN generate_add_order(sim, buffer, d, ts)
        ELSE IF Written(msg, buffer) > 0
        THEN [sim |-> [sim EXCEPT
                         !.active_orders_ = MapErase(@, id),
                         !.active_order_ids_ = RemoveId(@, id)],
              buffer |-> Append(buffer, Rec(ts, msg))]
        ELSE [sim |-> sim, buffer |-> buffer]

\* an execute that leaves a fully filled order in the inventory
generate_execute_orderKeepFilled(sim, buffer, d, ts) ==
    LET id == pick_random_active_order(sim, d)
    IN  IF id = 0 THEN generate_add_order(sim, buffer, d, ts)
        ELSE IF id \notin DOMAIN sim.active_orders_
        THEN [sim |-> sim, buffer |-> buffer]
        ELSE LET order == sim.active_orders_[id]
                 msg == [kind |-> "ExecuteOrder", order_id |-> id,
                         exec_quantity |-> IF d.fill = 0 THEN 1
                                           ELSE order.quantity]
                 left == order.quantity - msg.exec_quantity
             IN  IF Written(msg, buffer) > 0
                 THEN [sim |-> [sim EXCEPT !.active_orders_[id].quantity = left],
                       buffer |-> Append(buffer, Rec(ts, msg))]
                 ELSE [sim |-> sim, buffer |-> buffer]

\* MarketSimulator::generate_execute_order
generate_execute_order(sim, buffer, d, ts) ==
    LET id == pick_random_active_order(sim, d)
    IN  IF id = 0 THEN generate_add_order(sim, buffer, d, ts)
        ELSE IF id \notin DOMAIN sim.active_orders_
        THEN [sim |-> sim, buffer |-> buffer]
        ELSE LET order == sim.active_orders_[id]
                 msg == [kind |-> "ExecuteOrder", order_id |-> id,
                         exec_quantity |-> IF d.fill = 0 THEN 1
                                           ELSE order.quantity]
                 left == order.quantity - msg.exec_quantity
             IN  IF Written(msg, buffer) > 0
                 THEN [sim |-> IF left = 0
                               THEN [sim EXCEPT
                                       !.active_orders_ = MapErase(@, id),
                                       !.active_order_ids_ = RemoveId(@, id)]
                               ELSE [sim EXCEPT
                                       !.active_orders_[id].quantity = left],
                       buffer |-> Append(buffer, Rec(ts, msg))]
                 ELSE [sim |-> sim, buffer |-> buffer]

\* a replace that is sent but not written back to the inventory
generate_replace_orderNoTrack(sim, buffer, d, ts) ==
    LET id == pick_random_active_order(sim, d)
    IN  IF id = 0 THEN generate_add_order(sim, buffer, d, ts)
        ELSE IF id \notin DOMAIN sim.active_orders_
        THEN [sim |-> sim, buffer |-> buffer]
        ELSE LET order == sim.active_orders_[id]
                 msg == [kind |-> "ReplaceOrder", order_id |-> id,
                         new_price |-> jitter_price(order.price, d),
                         new_quantity |-> d.qty]
             IN  IF Written(msg, buffer) > 0
                 THEN [sim |-> sim, buffer |-> Append(buffer, Rec(ts, msg))]
                 ELSE [sim |-> sim, buffer |-> buffer]

\* MarketSimulator::generate_replace_order
generate_replace_order(sim, buffer, d, ts) ==
    LET id == pick_random_active_order(sim, d)
    IN  IF id = 0 THEN generate_add_order(sim, buffer, d, ts)
        ELSE IF id \notin DOMAIN sim.active_orders_
        THEN [sim |-> sim, buffer |-> buffer]
        ELSE LET order == sim.active_orders_[id]
                 msg == [kind |-> "ReplaceOrder", order_id |-> id,
                         new_price |-> jitter_price(order.price, d),
                         new_quantity |-> d.qty]
             IN  IF Written(msg, buffer) > 0
                 THEN [sim |-> [sim EXCEPT
                                  !.active_orders_[id].price = msg.new_price,
                                  !.active_orders_[id].quantity = msg.new_quantity],
                       buffer |-> Append(buffer, Rec(ts, msg))]
                 ELSE [sim |-> sim, buffer |-> buffer]

\* MarketSimulator::generate_trade_message
generate_trade_message(sim, buffer, d, ts) ==
    LET sym == pick_random_symbol(d)
        base == sim.current_prices_[sym]
        msg == [kind |-> "TradeMessage", symbol |-> SimSymbols[sym],
                price |-> base, quantity |-> d.qty,
                buy_order_id |-> sim.next_order_id_,
                sell_order_id |-> sim.next_order_id_ + 1]
        sim1 == [sim EXCEPT !.next_order_id_ = @ + 2]
    IN  IF Written(msg, buffer) > 0
        THEN [sim |-> [sim1 EXCEPT !.current_prices_[sym] = base + d.walk],
              buffer |-> Append(buffer, Rec(ts, msg))]
        ELSE [sim |-> sim1, buffer |-> buffer]

\* the switch on msg_type in MarketSimulator::run
Generate(sim, buffer, d, ts) ==
    CASE d.type = 0 -> generate_add_order(sim, buffer, d, ts)
      [] d.type = 1 -> generate_cancel_order(sim, buffer, d, ts)
      [] d.type = 2 -> generate_execute_order(sim, buffer, d, ts)
      [] d.type = 3 -> generate_replace_order(sim, buffer, d, ts)
      [] d.type = 4 -> generate_trade_message(sim, buffer, d, ts)

\* a loop that goes on while a single byte of the buffer is free
BatchHasRoomNoMargin(buffer) == OffsetOf(buffer) < SimBufferSize

\* the batching loop's condition: offset + 64 < sizeof(buffer)
BatchHasRoom(buffer) == OffsetOf(buffer) + 64 < SimBufferSize

\* the run is over for the model: MaxGenEvents events have been generated and
\* every draw fixed in advance has been used
RunElapsed(total, tape) == total >= MaxGenEvents /\ total >= Len(tape)

GenIdle ==
    /\ g_pc = "loop"
    /\ g_run = 1
    /\ g_tape = <<>>
    /\ g_sim = NewSimulator
    /\ g_buffer = <<>>
    /\ g_total_sent = 0
    /\ g_sent = <<>>
    /\ g_first = <<>>

\* the simulator constructed, run() about to test its loop condition
GenInit == GenIdle

\* MarketSimulator::run: the duration has not elapsed; size_t offset = 0
GenLoopEnter ==
    /\ g_pc = "loop"
    /\ ~RunElapsed(g_total_sent, g_tape)
    /\ g_buffer' = <<>>
    /\ g_pc' = "batch"
    /\ UNCHANGED <<g_run, g_tape, g_sim, g_total_sent, g_sent, g_first>>
    /\ UNCHANGED nonGenVars

\* MarketSimulator::run: the duration has elapsed, run() returns
GenLoopExit ==
    /\ g_pc = "loop"
    /\ g_pc' = "done"
    /\ UNCHANGED <<g_run, g_tape, g_sim, g_buffer, g_total_sent, g_sent, g_first>>
    /\ UNCHANGED nonGenVars

\* MarketSimulator::run, one pass of the batching loop: draw the type,
\* generate the record with the clock's reading as timestamp, total_sent++,
\* and leave the loop when the sender is ahead of its schedule or the buffer
\* has no room left
GenEvent(d, clock) ==
    /\ g_pc = "batch"
    /\ IF g_total_sent < Len(g_tape)
       THEN d = g_tape[g_total_sent + 1] /\ UNCHANGED g_tape
       ELSE d \in Draws(g_sim) /\ g_tape' = Append(g_tape, d)
    /\ LET r == Generate(g_sim, g_buffer, d, clock.nanos)
       IN  /\ g_sim' = r.sim
           /\ g_buffer' = r.buffer
           /\ g_pc' = IF clock.ahead \/ ~BatchHasRoom(r.buffer)
                         \/ RunElapsed(g_total_sent + 1, g_tape')
                      THEN "send" ELSE "batch"
    /\ g_total_sent' = g_total_sent + 1
    /\ UNCHANGED <<g_run, g_sent, g_first>>
    /\ UNCHANGED nonGenVars

\* MarketSimulator::run: if (offset > 0) sender.send(buffer, offset); throttle
GenSend ==
    /\ g_pc = "send"
    /\ g_sent' = IF g_buffer # <<>> THEN Append(g_sent, g_buffer) ELSE g_sent
    /\ g_pc' = "loop"
    /\ UNCHANGED <<g_run, g_tape, g_sim, g_buffer, g_total_sent, g_first>>
    /\ UNCHANGED nonGenVars

\* the program is started again with the same SimConfig: the same seed, so
\* the same values from the distributions
GenRerun ==
    /\ g_pc = "done"
    /\ g_run = 1
    /\ g_run' = 2
    /\ g_first' = g_sent
    /\ g_sent' = <<>>
    /\ g_sim' = NewSimulator
    /\ g_buffer' = <<>>
    /\ g_total_sent' = 0
    /\ g_pc' = "loop"
    /\ UNCHANGED g_tape
    /\ UNCHANGED nonGenVars

GenNext ==
    \/ GenLoopEnter
    \/ GenLoopExit
    \/ \E d \in Draws(g_sim) \cup {g_tape[i] : i \in 1 .. Len(g_tape)},
          clock \in GenClock : GenEvent(d, clock)
    \/ GenSend

\* draws for a run at a message rate the sender cannot keep up with, so that
\* the batching loop ends only when the buffer has no room
AddDraw == [NoDraw EXCEPT !.type = 0, !.jitter = 5000, !.qty = 10]
CancelDraw == [NoDraw EXCEPT !.type = 1]
ExecuteDraw == [NoDraw EXCEPT !.type = 2, !.fill = 1]
ReplaceDraw == [NoDraw EXCEPT !.type = 3, !.jitter = 5000, !.qty = 10]
TradeDraw == [NoDraw EXCEPT !.type = 4, !.qty = 10, !.walk = 50]

\* sequences of draws that fill more than one buffer: records of one size,
\* records of two sizes in turn, and 26 AddOrders with 21 CancelOrders, which
\* bring the offset to the last value that lets the loop go on, 1335
BatchTapes ==
    { [i \in 1 .. 35 |-> TradeDraw],
      [i \in 1 .. 40 |-> AddDraw],
      [i \in 1 .. 53 |-> IF i = 1 THEN AddDraw ELSE ReplaceDraw],
      [i \in 1 .. 50 |-> IF i % 2 = 1 THEN AddDraw ELSE ExecuteDraw],
      [i \in 1 .. 50 |-> IF i <= 26 THEN AddDraw
                         ELSE IF i <= 47 THEN CancelDraw ELSE TradeDraw] }

\* the simulator constructed, with the values its distributions will return
GenBatchInit ==
    /\ g_pc = "loop"
    /\ g_run = 1
    /\ g_tape \in BatchTapes
    /\ g_sim = NewSimulator
    /\ g_buffer = <<>>
    /\ g_total_sent = 0
    /\ g_sent = <<>>
    /\ g_first = <<>>

GenBatchNext ==
    \/ GenLoopEnter
    \/ GenLoopExit
    \/ \E d \in {g_tape[i] : i \in 1 .. Len(g_tape)},
          clock \in {c \in GenClock : ~c.ahead} : GenEvent(d, clock)
    \/ GenSend

GenTwiceNext ==
    \/ GenLoopEnter
    \/ GenLoopExit
    \/ \E d \in Draws(g_sim) \cup {g_tape[i] : i \in 1 .. Len(g_tape)},
          clock \in GenClock : GenEvent(d, clock)
    \/ GenSend
    \/ GenRerun

InitQueue ==
    QueueInit /\ CodecIdle /\ WalkIdle /\ BookIdle
    /\ PipeIdle /\ StopIdle /\ GenIdle
SpecQueue == InitQueue /\ [][QueueNext]_vars

InitCodec ==
    CodecInit /\ QueueInit /\ WalkIdle /\ BookIdle
    /\ PipeIdle /\ StopIdle /\ GenIdle
SpecCodec == InitCodec /\ [][CodecNext]_vars

InitWalk ==
    WalkInit /\ QueueInit /\ CodecIdle /\ BookIdle
    /\ PipeIdle /\ StopIdle /\ GenIdle
SpecWalk == InitWalk /\ [][WalkNext]_vars
\* the parser thread, once it has popped a packet, keeps running its loop:
\* weak fairness of WalkNext, WF_vars(WalkNext), with ENABLED <<WalkNext>>_vars
\* written as the condition it amounts to, the thread being in the loop
WalkFairness == <>[](w_pc = "walk") => []<><<WalkNext>>_vars
SpecWalkFair == SpecWalk /\ WalkFairness

InitBook ==
    BookInit /\ QueueInit /\ CodecIdle /\ WalkIdle
    /\ PipeIdle /\ StopIdle /\ GenIdle
SpecBook == InitBook /\ [][BookNext]_vars

InitPipe ==
    PipeInit /\ BookInit /\ QueueInit /\ CodecIdle
    /\ WalkIdle /\ StopIdle /\ GenIdle
SpecPipe == InitPipe /\ [][PipeNext]_vars

InitStop ==
    StopInit /\ QueueInit /\ CodecIdle /\ WalkIdle
    /\ BookIdle /\ PipeIdle /\ GenIdle
SpecStop == InitStop /\ [][StopNext]_vars

\* every thread that can take a step eventually takes one, main() included;
\* io_ctx.run_for returns however many datagrams arrive; the signal itself
\* and the arrival of datagrams are not required to happen
StopFairness ==
    /\ WF_vars(MainStep)
    /\ WF_vars(NetworkStep)
    /\ WF_vars(ParserStep)
    /\ WF_vars(BookStep)
    /\ WF_vars(ConsumerStep)
SpecStopFair == SpecStop /\ StopFairness

InitGen ==
    GenInit /\ QueueInit /\ CodecIdle /\ WalkIdle
    /\ BookIdle /\ PipeIdle /\ StopIdle
SpecGen == InitGen /\ [][GenNext]_vars
SpecGenTwice == InitGen /\ [][GenTwiceNext]_vars

InitGenBatch ==
    GenBatchInit /\ QueueInit /\ CodecIdle /\ WalkIdle
    /\ BookIdle /\ PipeIdle /\ StopIdle
SpecGenBatch == InitGenBatch /\ [][GenBatchNext]_vars

\* items pushed and not yet popped, by completed calls
QueuedCount == Len(pushed) - Len(popped)

(***************************************************************************)
(* Claims about the SPSC queue (checked under SpecQueue)                   *)
(***************************************************************************)
IsPrefix(s, t) == Len(s) <= Len(t) /\ s = SubSeq(t, 1, Len(s))

\* C1: with one producer and one consumer, under every interleaving of the
\* loads, slot accesses and stores, the values popped are the values pushed,
\* in the same order: what has been popped is always a prefix of what has
\* been pushed, and whenever the queue is empty everything pushed has been
\* popped (nothing lost, duplicated or reordered, also after wrap-around).
C1_FifoOrder ==
    /\ IsPrefix(popped, pushed)
    /\ empty => popped = pushed

\* C1 witness: more items than the queue has slots went through (the indices
\* wrapped around), all of them popped, and not all of them equal.
C1_Witness ==
    /\ Len(popped) > Capacity
    /\ popped = pushed
    /\ \E i \in 1 .. Len(popped) : popped[i] # popped[1]

\* C2: try_push succeeds iff fewer than Capacity-1 items are queued when it
\* tests for full, and try_pop succeeds iff at least one item is queued when
\* it tests for empty; a successful push adds one item, a successful pop
\* removes one, and a failed call returns false leaving the contents alone.
C2_PushPopDecision ==
    [][ /\ (p_pc = "load_tail" /\ p_pc' = "write") => QueuedCount < Capacity - 1
        /\ (p_pc = "load_tail" /\ p_pc' = "idle") =>
               /\ QueuedCount = Capacity - 1
               /\ lastPush' = "full"
               /\ pushed' = pushed /\ head_' = head_ /\ buffer_' = buffer_
        /\ (p_pc = "store_head" /\ p_pc' = "idle") =>
               /\ lastPush' = "ok"
               /\ QueuedCount' = QueuedCount + 1
        /\ (c_pc = "load_head" /\ c_pc' = "read") => QueuedCount >= 1
        /\ (c_pc = "load_head" /\ c_pc' = "idle") =>
               /\ QueuedCount = 0
               /\ lastPop' = "empty"
               /\ popped' = popped /\ tail_' = tail_
        /\ (c_pc = "store_tail" /\ c_pc' = "idle") =>
               /\ lastPop' = "ok"
               /\ QueuedCount' = QueuedCount - 1
      ]_vars

\* C2 witness: Capacity-1 consecutive pushes into the empty queue succeeded
\* and the next try_push returned false.
C2_Witness ==
    /\ p_pc = "idle"
    /\ lastPush = "full"
    /\ Len(pushed) = Capacity - 1
    /\ popped = <<>>
    /\ lastPop = "none"

\* C3: with no call in progress, size() is the number of successful pushes
\* minus the number of successful pops, and empty() holds iff that is zero.
C3_SizeIsPushedMinusPopped ==
    (p_pc = "idle" /\ c_pc = "idle") =>
        /\ size = Len(pushed) - Len(popped)
        /\ empty <=> (Len(pushed) - Len(popped) = 0)

\* C3 witness: no call in progress, the head index has wrapped below the tail
\* index, and two items are queued.
C3_Witness ==
    /\ p_pc = "idle" /\ c_pc = "idle"
    /\ head_ < tail_
    /\ size = 2
    /\ Len(pushed) - Len(popped) = 2

(***************************************************************************)
(* Claims about the codec (checked under SpecCodec)                        *)
(***************************************************************************)
\* the tags and wire sizes of the protocol's record table
TagOf(kind) ==
    CASE kind = "AddOrder" -> 65
      [] kind = "CancelOrder" -> 88
      [] kind = "ExecuteOrder" -> 69
      [] kind = "ReplaceOrder" -> 82
      [] kind = "TradeMessage" -> 84

WireSizeOf(kind) ==
    CASE kind = "AddOrder" -> 36
      [] kind = "CancelOrder" -> 19
      [] kind = "ExecuteOrder" -> 23
      [] kind = "ReplaceOrder" -> 27
      [] kind = "TradeMessage" -> 43

\* C4: for every record type, field values and timestamp, decoding the
\* buffer that encode filled (decode_header and parse) gives back a record of
\* the same type with every field equal, and a header carrying the timestamp.
C4_RoundTrip ==
    (/\ e_pc = "parsed"
     /\ e_buf = encode(e_msg, e_ts, e_buf0).buffer)
    => /\ e_out = e_msg
       /\ e_hdr.timestamp = e_ts

\* C4 witness: an AddOrder with the largest order id and price was encoded
\* and decoded again.
C4_Witness ==
    /\ e_pc = "parsed"
    /\ e_buf = encode(e_msg, e_ts, e_buf0).buffer
    /\ e_msg.kind = "AddOrder"
    /\ e_msg.order_id = Rep(255, 8)
    /\ e_msg.price = Rep(255, 4)
    /\ e_msg.quantity = LE(1850500, 4)
    /\ e_out = e_msg
    /\ e_ts = LE(1000000007, 8)

\* C5: encode into a buffer smaller than the record's wire size returns 0
\* and leaves every byte of the buffer as it was.
C5_BufferTooSmall ==
    (e_pc = "encoded" /\ Len(e_buf0) < WireSizeOf(e_msg.kind))
    => /\ e_ret = 0
       /\ e_buf = e_buf0

\* C5 witness: a TradeMessage met a 42-byte buffer (room for the header and
\* all but the last payload byte) and encode returned 0.
C5_Witness ==
    /\ e_pc = "encoded"
    /\ e_msg.kind = "TradeMessage"
    /\ Len(e_buf0) = 42
    /\ e_ret = 0
    /\ e_buf = e_buf0

\* C6: encode into a buffer of at least the wire size returns the record
\* type's wire size (36, 19, 23, 27, 43), changes no byte beyond that many
\* from the buffer's start, and writes a header with the wire size in bytes
\* 0-1 (little-endian), the ASCII tag in byte 2 and the timestamp in bytes
\* 3-10, followed by the payload members.
C6_EncodeWritesWireSize ==
    (e_pc = "encoded" /\ Len(e_buf0) >= WireSizeOf(e_msg.kind))
    => /\ e_ret = WireSizeOf(e_msg.kind)
       /\ Len(e_buf) = Len(e_buf0)
       /\ \A i \in e_ret + 1 .. Len(e_buf) : e_buf[i] = e_buf0[i]
       /\ e_buf[1] = WireSizeOf(e_msg.kind) % 256
       /\ e_buf[2] = WireSizeOf(e_msg.kind) \div 256
       /\ e_buf[3] = TagOf(e_msg.kind)
       /\ SubSeq(e_buf, 4, 11) = e_ts
       /\ SubSeq(e_buf, 12, e_ret) = StructBytes(e_msg)

\* C6 witness: an AddOrder was encoded into a buffer with room to spare; 36
\* bytes were written, starting 0x24 0x00 'A', and the spare bytes kept
\* their value.
C6_Witness ==
    /\ e_pc = "encoded"
    /\ e_msg.kind = "AddOrder"
    /\ Len(e_buf0) = 40
    /\ e_ret = 36
    /\ SubSeq(e_buf, 1, 3) = <<36, 0, 65>>
    /\ SubSeq(e_buf, 37, 40) = Rep(170, 4)

\* C7: parse of a record whose type byte is none of 'A', 'X', 'E', 'R', 'T'
\* yields the error outcome UnknownType and never a typed record.
C7_UnknownTypeIsAnError ==
    (e_pc = "parsed" /\ e_hdr.message_type \notin {65, 88, 69, 82, 84})
    => e_out.kind = "UnknownType"

(***************************************************************************)
(* Claims about the datagram walk (checked under SpecWalk)                 *)
(***************************************************************************)
\* the length field of the header at the walk's offset, read from the bytes
LengthFieldAt(data, offset) == data[offset + 1] + 256 * data[offset + 2]

Expected(recs, rts) ==
    [i \in 1 .. Len(recs) |->
        [message |-> recs[i].msg,
         receive_timestamp |-> rts,
         protocol_timestamp |-> recs[i].ts]]

\* C9: a datagram of k >= 0 well-formed records back to back, followed by
\* fewer than 11 other bytes, is walked into exactly those k records, in
\* order and with their field values, and nothing for the trailing bytes.
C9_WalkEmitsTheRecords ==
    (w_bad.what = "none" /\ w_trail < 11 /\ w_pc # "idle")
    => /\ IsPrefix(w_out, Expected(w_recs, w_rts))
       /\ w_pc = "done" => /\ w_out = Expected(w_recs, w_rts)
                           /\ w_stop = "end"

\* C9 witness: the 60-byte datagram AddOrder(36), CancelOrder(19), 5 trailing
\* bytes was walked to its end and gave the two events.
C9_Witness ==
    /\ w_pc = "done"
    /\ w_bad.what = "none"
    /\ Len(w_recs) = 2
    /\ w_recs[1].msg.kind = "AddOrder"
    /\ w_recs[2].msg.kind = "CancelOrder"
    /\ w_trail = 5
    /\ Len(w_data) = 60
    /\ Len(w_out) = 2
    /\ w_out[1].message = w_recs[1].msg
    /\ w_out[2].message = w_recs[2].msg

(***************************************************************************)
(* Claims about the book engine (checked under SpecBook)                   *)
(***************************************************************************)
RECURSIVE SumOver(_, _)
\* the sum of f[x] over the x in S
SumOver(S, f) ==
    IF S = {} THEN 0
    ELSE LET x == CHOOSE y \in S : TRUE IN f[x] + SumOver(S \ {x}, f)

\* the live orders resting at (sym, side, price)
OrdersAt(sym, side, price) ==
    {id \in DOMAIN b_store : /\ b_store[id].symbol = sym
                             /\ b_store[id].side = side
                             /\ b_store[id].price = price}

RemainingAt(sym, side, price) ==
    SumOver(OrdersAt(sym, side, price),
            [id \in DOMAIN b_store |-> b_store[id].remaining_quantity])

\* C10: after every event, every price level's total_quantity equals the sum
\* of remaining_quantity over the live orders stored with that symbol, side
\* and price.
C10_LevelQuantityIsSumOfOrders ==
    \A sym \in DOMAIN b_books : \A side \in Sides :
        \A price \in DOMAIN LevelsOf(b_books[sym], side) :
            LevelsOf(b_books[sym], side)[price].total_quantity
                = RemainingAt(sym, side, price)

\* total_quantity of the level at (sym, side, price) in books, 0 when the
\* book or the level does not exist
LevelQuantity(books, sym, side, price) ==
    IF sym \notin DOMAIN books THEN 0
    ELSE IF price \notin DOMAIN LevelsOf(books[sym], side) THEN 0
    ELSE LevelsOf(books[sym], side)[price].total_quantity

\* the call just made was op on an order that was live when it was made
CallOnLive(op) ==
    /\ b_last'.op = op
    /\ b_last'.id \in DOMAIN b_store

\* C11: execute_order(id, fill_qty) on a live order with fill_qty greater
\* than its remaining quantity takes exactly the remaining quantity off the
\* order's level (other orders' quantity there is not reduced) and erases
\* the order.
C11_OverfillIsFullFill ==
    [][(/\ CallOnLive("execute")
        /\ b_last'.qty > b_store[b_last'.id].remaining_quantity)
       => LET order == b_store[b_last'.id]
          IN  /\ b_last'.id \notin DOMAIN b_store'
              /\ LevelQuantity(b_books', order.symbol, order.side, order.price)
                   = LevelQuantity(b_books, order.symbol, order.side, order.price)
                       - order.remaining_quantity]_vars

\* C12: after every call no price level with total_quantity = 0 exists in
\* any book, so best_bid_price and best_ask_price never name such a level.
C12_NoZeroLevel ==
    \A sym \in DOMAIN b_books : \A side \in Sides :
        \A price \in DOMAIN LevelsOf(b_books[sym], side) :
            LevelsOf(b_books[sym], side)[price].total_quantity # 0

\* C13: after every call an order id is in the order store only if its
\* remaining quantity is nonzero: every stored order has
\* remaining_quantity > 0.
C13_StoredOrdersHaveQuantity ==
    \A id \in DOMAIN b_store : b_store[id].remaining_quantity > 0

\* C14: cancel_order, execute_order and replace_order called with an id that
\* is not in the order store leave the store and every book unchanged (so
\* replace_order creates no order).
C14_UnknownIdIsNoOp ==
    [][(/\ b_last'.op \in {"cancel", "execute", "replace"}
        /\ b_last'.id \notin DOMAIN b_store)
       => (b_store' = b_store /\ b_books' = b_books)]_vars

\* a replace_order of an id that is not stored has been made while another
\* order rests in a book
C14_Witness ==
    /\ b_last.op = "replace"
    /\ b_last.id \notin DOMAIN b_store
    /\ b_last.qty > 0
    /\ \E id \in DOMAIN b_store :
          LevelQuantity(b_books, b_store[id].symbol, b_store[id].side,
                        b_store[id].price) > 0

\* C15: in every reachable book, best_bid_price is the greatest bid level
\* price and best_bid_quantity that level's total; best_ask_price is the
\* least ask level price and best_ask_quantity that level's total; each of
\* the four is 0 when its side has no level.
C15_BestBidAsk ==
    \A sym \in DOMAIN b_books :
        LET book == b_books[sym]
            bid == best_bid_price(book)
            ask == best_ask_price(book)
        IN  /\ IF DOMAIN book.bids = {}
               THEN bid = 0 /\ best_bid_quantity(book) = 0
               ELSE /\ bid \in DOMAIN book.bids
                    /\ \A p \in DOMAIN book.bids : p <= bid
                    /\ best_bid_quantity(book) = book.bids[bid].total_quantity
            /\ IF DOMAIN book.asks = {}
               THEN ask = 0 /\ best_ask_quantity(book) = 0
               ELSE /\ ask \in DOMAIN book.asks
                    /\ \A p \in DOMAIN book.asks : ask <= p
                    /\ best_ask_quantity(book) = book.asks[ask].total_quantity

\* a book has two bid levels, the higher one holding 1 and the lower one 2,
\* and no ask level
C15_Witness ==
    \E sym \in DOMAIN b_books :
        LET book == b_books[sym]
        IN  /\ Cardinality(DOMAIN book.bids) = 2
            /\ DOMAIN book.asks = {}
            /\ best_bid_quantity(book) = 1
            /\ \E p \in DOMAIN book.bids :
                  p < best_bid_price(book) /\ book.bids[p].total_quantity = 2

\* C16: replace_order(id, new_price, new_qty) on a live order takes the
\* order's old remaining quantity off its old level (the level is gone if it
\* held only this order), puts new_qty on the level at new_price of the same
\* side and symbol, and leaves the stored order with the new price and
\* quantity and its side and symbol as they were.
C16_ReplaceMovesQuantity ==
    [][CallOnLive("replace")
       => LET id == b_last'.id
              order == b_store[id]
              new_price == b_last'.price
              new_qty == b_last'.qty
              Was(price) == LevelQuantity(b_books, order.symbol, order.side, price)
              Is(price) == LevelQuantity(b_books', order.symbol, order.side, price)
          IN  /\ b_store' = [b_store EXCEPT ![id].price = new_price,
                                            ![id].remaining_quantity = new_qty]
              /\ IF new_price = order.price
                 THEN Is(new_price) = Was(new_price) - order.remaining_quantity + new_qty
                 ELSE /\ Is(order.price) = Was(order.price) - order.remaining_quantity
                      /\ Is(new_price) = Was(new_price) + new_qty
                      /\ OrdersAt(order.symbol, order.side, order.price) = {id}
                           => order.price \notin
                                DOMAIN LevelsOf(b_books'[order.symbol], order.side)]_vars

\* the best price of a side over the given level prices: greatest bid, least
\* ask, 0 when there is none
BestOf(side, prices) ==
    IF prices = {} THEN 0
    ELSE IF side = Side_Buy THEN Max(prices) ELSE Min(prices)

\* C17: cancel_order(id) on a live order takes exactly the order's remaining
\* quantity off its level and erases the order; when it was the last order
\* at that price the level is gone and the side's best price is that of the
\* next level, or 0 if none is left.
C17_CancelRemovesOrder ==
    [][CallOnLive("cancel")
       => LET id == b_last'.id
              order == b_store[id]
              levels == LevelsOf(b_books[order.symbol], order.side)
              levels2 == LevelsOf(b_books'[order.symbol], order.side)
              best2 == IF order.side = Side_Buy
                       THEN best_bid_price(b_books'[order.symbol])
                       ELSE best_ask_price(b_books'[order.symbol])
          IN  /\ b_store' = MapErase(b_store, id)
              /\ LevelQuantity(b_books', order.symbol, order.side, order.price)
                   = LevelQuantity(b_books, order.symbol, order.side, order.price)
                       - order.remaining_quantity
              /\ OrdersAt(order.symbol, order.side, order.price) = {id}
                   => /\ order.price \notin DOMAIN levels2
                      /\ best2 = BestOf(order.side, DOMAIN levels \ {order.price})]_vars

\* C18: after any sequence of calls the order_count of every price level
\* equals the number of live orders resting at that symbol, side and price.
C18_OrderCountIsLiveOrders ==
    \A sym \in DOMAIN b_books : \A side \in Sides :
        \A price \in DOMAIN LevelsOf(b_books[sym], side) :
            LevelsOf(b_books[sym], side)[price].order_count
                = Cardinality(OrdersAt(sym, side, price))

\* the smaller of two numbers
Smaller(a, b) == IF a <= b THEN a ELSE b

\* result holds count levels of the map levels, best first: each entry is the
\* level stored under its price, prices strictly fall (descending) or rise,
\* and no level left out is better than one returned
IsTopOfBook(result, levels, count, descending) ==
    /\ Len(result) = count
    /\ \A i \in 1 .. Len(result) :
          /\ result[i].price \in DOMAIN levels
          /\ result[i] = levels[result[i].price]
    /\ \A i \in 1 .. Len(result) - 1 :
          IF descending THEN result[i].price > result[i + 1].price
          ELSE result[i].price < result[i + 1].price
    /\ \A p \in DOMAIN levels :
          (\A i \in 1 .. Len(result) : result[i].price # p)
             => \A i \in 1 .. Len(result) :
                   IF descending THEN p < result[i].price ELSE p > result[i].price

\* C19: get_bid_levels(n) returns min(n, number of bid levels) levels, the
\* highest-priced ones in strictly descending price order; get_ask_levels(n)
\* returns min(n, number of ask levels) levels, the lowest-priced ones in
\* strictly ascending price order.
C19_TopLevels ==
    \A sym \in DOMAIN b_books : \A n \in Depths :
        LET book == b_books[sym]
        IN  /\ IsTopOfBook(get_bid_levels(book, n), book.bids,
                           Smaller(n, Cardinality(DOMAIN book.bids)), TRUE)
            /\ IsTopOfBook(get_ask_levels(book, n), book.asks,
                           Smaller(n, Cardinality(DOMAIN book.asks)), FALSE)

\* a book has two bid levels: asked for one it gives the higher, asked for
\* three it gives both, higher first
C19_Witness ==
    \E sym \in DOMAIN b_books :
        LET book == b_books[sym]
        IN  /\ Cardinality(DOMAIN book.bids) = 2
            /\ Len(get_bid_levels(book, 1)) = 1
            /\ get_bid_levels(book, 1)[1].price = Max(DOMAIN book.bids)
            /\ Len(get_bid_levels(book, MaxDepth)) = 2
            /\ get_bid_levels(book, MaxDepth)[2].price = Min(DOMAIN book.bids)

(***************************************************************************)
(* Claims about the pipeline (checked under SpecPipe)                      *)
(***************************************************************************)
\* C20: drops happen only at the packet boundary: the parser never drops an
\* individual record of a datagram it took from Q1 because Q2 is full.
C20_NoRecordDropped == pl_q2drops = {}

(***************************************************************************)
(* Claims about malformed records in the datagram walk (SpecWalk)          *)
(***************************************************************************)
\* C24: when the header at the walk's offset carries a length below 11 (the
\* size of the header itself) or above the bytes remaining from the record's
\* start, the walk emits no event for that record and ends there: nothing
\* further is emitted from the datagram.
C24_BadLengthAbandons ==
    [][ (/\ w_pc = "walk"
         /\ w_offset + 11 <= Len(w_data)
         /\ \/ LengthFieldAt(w_data, w_offset) < 11
            \/ LengthFieldAt(w_data, w_offset) > Len(w_data) - w_offset)
        => /\ w_pc' = "done"
           /\ w_out' = w_out
      ]_vars

\* the type byte of the header at the walk's offset, read from the bytes
TypeFieldAt(data, offset) == data[offset + 3]

\* C25: when the record at the walk's offset carries a type tag that is none
\* of the five known ones, the walk hands no event for it to Q2 and ends
\* there, and what was emitted from the earlier records stays as it was.
C25_UnknownTypeAbandons ==
    [][ (/\ w_pc = "walk"
         /\ w_offset + 11 <= Len(w_data)
         /\ TypeFieldAt(w_data, w_offset) \notin KnownTypes)
        => /\ w_pc' = "done"
           /\ w_out' = w_out
      ]_vars

(***************************************************************************)
(* Claims about the pipeline's ordering, emission and drops (SpecPipe)     *)
(***************************************************************************)
\* origin a lies before origin b: an earlier datagram in the receiver's
\* enqueue order, or an earlier record of the same datagram
OriginBefore(a, b) == a[1] < b[1] \/ (a[1] = b[1] /\ a[2] < b[2])

MustEmit(msg) ==
    \/ msg.kind = "AddOrder"
    \/ /\ msg.kind \in {"CancelOrder", "ExecuteOrder", "ReplaceOrder"}
       /\ msg.order_id \in DOMAIN b_store

\* C22: whenever the book stage processes an event, a BookUpdate for that
\* event is appended to Q3 if the event is an AddOrder, or a CancelOrder,
\* ExecuteOrder or ReplaceOrder whose order was in the store; otherwise Q3
\* is left as it was; a TradeMessage leaves the order store and all books
\* unchanged; an update that is due is in Q3 afterwards also when Q3 was
\* full (none is dropped).
C22_BookStageEmits ==
    [][ bs_processed' # bs_processed =>
          /\ MustEmit(bs_tmsg.message) =>
                 /\ Len(q3') = Len(q3) + 1
                 /\ q3'[Len(q3')].origin = bs_tmsg.origin
                 /\ SubSeq(q3', 1, Len(q3)) = q3
          /\ ~MustEmit(bs_tmsg.message) => q3' = q3
          /\ bs_tmsg.message.kind = "TradeMessage" =>
                 b_store' = b_store /\ b_books' = b_books ]_vars

\* the counters the pipeline keeps: BookStage::messages_processed_ and the
\* consumer's count of book updates; the network and parser stages have none
PipeCounters == <<bs_processed, cs_updates>>

\* C23: when the receiver's try_push of a datagram into Q1 fails because Q1
\* is full, Q1's contents are unchanged, the datagram is not retried (it is
\* in no queue afterwards) and a counter of the pipeline goes up by one.
C23_DropIsCounted ==
    [][ pl_q1drops' # pl_q1drops =>
          /\ q1' = q1
          /\ \A i \in 1 .. Len(q1') : q1'[i].id # pl_received'
          /\ \E i \in 1 .. Len(PipeCounters) :
                 PipeCounters'[i] = PipeCounters[i] + 1 ]_vars

(***************************************************************************)
(* Claims about shutdown (SpecStopFair)                                    *)
(***************************************************************************)
\* main() is past the stop() call of the i-th stage
StopReturned(i) ==
    \/ sd_main = "done"
    \/ sd_main \in {"clear", "join"} /\ sd_stage > i

\* the stop() calls come in the order network, parser, book, consumer, and
\* a stop() that has returned has cleared the flag and joined the thread
StopsInOrder ==
    \A i \in 1 .. Len(StageOrder) :
        /\ StopReturned(i) =>
               /\ ~sd_running[StageOrder[i]]
               /\ sd_pc[StageOrder[i]] = "exited"
        /\ ~sd_running[StageOrder[i]] =>
               \A j \in 1 .. i - 1 : StopReturned(j)

\* C26: the stages are stopped in the order receiver, parser, book, sink;
\* each stop() clears the stage's running flag and returns only after the
\* stage's thread has left run(); and under fair scheduling of main() and
\* the four threads, once the signal has arrived every stop() returns and
\* main() gets past the last one, whatever the queues hold at that moment.
C26_ShutdownTerminates ==
    /\ []StopsInOrder
    /\ (sd_main # "wait") ~> (sd_main = "done")

\* C26 witness: the shutdown is complete, all four threads have left run(),
\* and Q1 and Q3 are still full and Q2 is not empty.
C26_Witness ==
    /\ sd_main = "done"
    /\ \A s \in Stages : sd_pc[s] = "exited"
    /\ sd_q1 = Q1Capacity - 1
    /\ sd_q2 > 0
    /\ sd_q3 = Q3Capacity - 1

(***************************************************************************)
(* Claims about the generator (SpecGen, SpecGenTwice)                      *)
(***************************************************************************)
RECURSIVE Flatten(_)
\* the records of a list of datagrams, in order
Flatten(datagrams) ==
    IF datagrams = <<>> THEN <<>>
    ELSE Flatten(SubSeq(datagrams, 1, Len(datagrams) - 1))
         \o datagrams[Len(datagrams)]

\* the records generated so far in this run: those sent and those batched
GenStream ==
    Flatten(g_sent) \o (IF g_pc \in {"batch", "send"} THEN g_buffer ELSE <<>>)

RECURSIVE BookAfter(_)
\* the order book manager after the records were applied in order
BookAfter(records) ==
    IF records = <<>> THEN Manager(EmptyMap, EmptyMap)
    ELSE Applied(BookAfter(SubSeq(records, 1, Len(records) - 1)),
                 records[Len(records)].message)

C28_SameSeedSameStream ==
    (g_run = 2 /\ g_pc = "done") => g_sent = g_first

\* C30: after every record of the generated stream is applied, each symbol's
\* book with bids and asks has its best bid strictly below its best ask.
C30_StreamNeverCrosses ==
    LET books == BookAfter(GenStream).books
    IN  \A sym \in DOMAIN books :
            (DOMAIN books[sym].bids # {} /\ DOMAIN books[sym].asks # {}) =>
                best_bid_price(books[sym]) < best_ask_price(books[sym])

(***************************************************************************)
(* Claim about the processed-message count (SpecPipe)                      *)
(***************************************************************************)
\* C29: when no datagram was dropped and the pipeline has run until its
\* queues are empty and the parser and book stages are back at their polls,
\* the book stage's messages_processed_ equals the number of records in the
\* datagrams sent (records of every type, each counted once).
C29_ProcessedCountsEveryRecord ==
    (/\ pl_q1drops = {}
     /\ q1 = <<>> /\ q2 = <<>> /\ q3 = <<>>
     /\ ps_pc = "poll" /\ bs_pc = "poll")
    => bs_processed = pl_records

(***************************************************************************)
(* Claims relating the generator to the book engine (SpecGen)              *)
(***************************************************************************)
\* C31: when every record generated so far has been applied by the book
\* engine in order, the ids in the engine's order store are the ids in the
\* generator's inventory, and for each of them side, symbol, price and
\* remaining quantity agree.
C31_StoreMirrorsInventory ==
    LET store == BookAfter(GenStream).store
        inventory == g_sim.active_orders_
    IN  /\ DOMAIN store = DOMAIN inventory
        /\ \A id \in DOMAIN store :
               /\ store[id].side = inventory[id].side
               /\ store[id].symbol = inventory[id].symbol
               /\ store[id].price = inventory[id].price
               /\ store[id].remaining_quantity = inventory[id].quantity

\* C31 witness: an order was added and then partly executed or replaced, and
\* it is in the inventory with what is left of it.
C31_Witness ==
    /\ Len(GenStream) = 2
    /\ GenStream[1].message.kind = "AddOrder"
    /\ GenStream[2].message.kind \in {"ExecuteOrder", "ReplaceOrder"}
    /\ 1 \in DOMAIN g_sim.active_orders_
    /\ \/ g_sim.active_orders_[1].quantity = 9
       \/ g_sim.active_orders_[1].price # GenStream[1].message.price

(***************************************************************************)
(* Claim about slot ownership in the queue (SpecQueue)                     *)
(***************************************************************************)
\* the slot in which the k-th pushed item lives
SlotOf(k) == (k - 1) % Capacity

\* slots holding an item that was published and is not yet consumed
UnconsumedSlots == {SlotOf(k) : k \in Len(popped) + 1 .. Len(pushed)}

\* C32: in every interleaving of one producer and one consumer, while the
\* producer is between its full test and its head store the slot it writes
\* holds no unconsumed item and is not the slot the consumer is reading, and
\* the value the consumer has read is the one the producer stored for that
\* queue position.
C32_SlotsNeverShared ==
    /\ p_pc \in {"write", "store_head"} =>
           /\ p_head \notin UnconsumedSlots
           /\ c_pc \in {"read", "store_tail"} => c_tail # p_head
    /\ c_pc \in {"read", "store_tail"} =>
           /\ Len(popped) < Len(pushed)
           /\ c_tail = SlotOf(Len(popped) + 1)
           /\ buffer_[c_tail] = pushed[Len(popped) + 1]
    /\ c_pc = "store_tail" => c_item = pushed[Len(popped) + 1]

\* C32 witness: after the ring has wrapped, the producer is writing a slot
\* it used before while the consumer holds a value read from another slot.
C32_Witness ==
    /\ Len(pushed) >= Capacity
    /\ p_pc = "write"
    /\ c_pc = "store_tail"
    /\ c_item = 1
    /\ p_item = 0

(***************************************************************************)
(* Claim about the bytes the parser reads (SpecWalk)                       *)
(***************************************************************************)
\* the offset one past the last byte Encoder::parse(data + off) reads: the
\* header, and the struct of the type its tag names
ParseEnd(data, off, stale) ==
    LET header == decode_header(data, off, stale)
    IN  IF header.message_type \in KnownTypes
        THEN PayloadOffset(off)
             + sizeof(CHOOSE k \in Kinds : TYPE(k) = header.message_type)
        ELSE PayloadOffset(off)

\* the parser is about to decode the record at w_offset
WalkWillEmit ==
    /\ w_pc = "walk"
    /\ HasHeader(w_offset, Len(w_data))
    /\ ~HeaderMalformed(decode_header(w_data, w_offset, w_stale), w_offset, Len(w_data))

\* C33: for every record the parser decodes, the bytes parse reads end within
\* the record's declared length, hence within the datagram.
C33_ParseStaysInsideRecord ==
    WalkWillEmit =>
        /\ ParseEnd(w_data, w_offset, w_stale)
               <= w_offset + decode_header(w_data, w_offset, w_stale).message_length
        /\ ParseEnd(w_data, w_offset, w_stale) <= Len(w_data)

\* C33, the part about the datagram's end alone
C33_ParseStaysInsideDatagram ==
    WalkWillEmit => ParseEnd(w_data, w_offset, w_stale) <= Len(w_data)

(***************************************************************************)
(* Claims about single book engine operations (SpecBook)                   *)
(***************************************************************************)
\* every level of every book has the same total in books1 as in books2,
\* except the level (sym, side, price)
SameLevelsBut(books1, books2, sym, side, price) ==
    \A s \in BookSymbols, d \in {Side_Buy, Side_Sell}, p \in Prices :
        <<s, d, p>> # <<sym, side, price>>
        => LevelQuantity(books1, s, d, p) = LevelQuantity(books2, s, d, p)

\* C34: execute_order(id, fill_qty) on a stored order with
\* 0 < fill_qty < remaining keeps the order with its remaining quantity
\* reduced by fill_qty and nothing else changed, reduces the total of the
\* order's level by fill_qty, and changes the total of no other level.
C34_PartialFill ==
    [][(/\ b_last'.op = "execute"
        /\ b_last'.id \in DOMAIN b_store
        /\ 0 < b_last'.qty
        /\ b_last'.qty < b_store[b_last'.id].remaining_quantity)
       => LET id == b_last'.id
              order == b_store[id]
          IN  /\ b_store' = [b_store EXCEPT ![id].remaining_quantity =
                                                @ - b_last'.qty]
              /\ LevelQuantity(b_books', order.symbol, order.side, order.price)
                     = LevelQuantity(b_books, order.symbol, order.side, order.price)
                       - b_last'.qty
              /\ SameLevelsBut(b_books', b_books, order.symbol, order.side,
                               order.price)]_vars

(***************************************************************************)
(* Claim about the contents of a BookUpdate (SpecPipe)                     *)
(***************************************************************************)
\* the symbol of the order the event being processed is about
AffectedSymbol ==
    IF bs_tmsg.message.kind = "AddOrder" THEN bs_tmsg.message.symbol
    ELSE b_store[bs_tmsg.message.order_id].symbol

\* the BookUpdate u shows the top of sym's book as it is in books
ShowsTopOfBook(u, books, sym) ==
    /\ u.symbol = sym
    /\ u.best_bid = best_bid_price(books[sym])
    /\ u.best_bid_qty = best_bid_quantity(books[sym])
    /\ u.best_ask = best_ask_price(books[sym])
    /\ u.best_ask_qty = best_ask_quantity(books[sym])

\* what C35 says of every BookUpdate but the order of its two timestamps
C35_UpdateContents ==
    [][ Len(q3') > Len(q3) =>
          LET u == q3'[Len(q3')]
          IN  /\ ShowsTopOfBook(u, b_books', AffectedSymbol)
              /\ u.receive_timestamp = pl_stamps[u.origin[1]] ]_vars

\* C35: every BookUpdate the book stage emits carries the symbol of the
\* affected order, the best bid and ask prices and quantities of that
\* symbol's book as they are after the event's mutation, and the receive
\* timestamp of the datagram the event came from, and its book update
\* timestamp is not less than its receive timestamp.
C35_UpdateIsCurrent ==
    [][ Len(q3') > Len(q3) =>
          LET u == q3'[Len(q3')]
          IN  /\ ShowsTopOfBook(u, b_books', AffectedSymbol)
              /\ u.receive_timestamp = pl_stamps[u.origin[1]]
              /\ u.book_update_timestamp >= u.receive_timestamp ]_vars

(***************************************************************************)
(* Claims about what the generator emits and sends (SpecGen)               *)
(***************************************************************************)
\* the event just generated appended an ExecuteOrder to the send buffer
EmitsExecute ==
    /\ Len(g_buffer') = Len(g_buffer) + 1
    /\ g_buffer'[Len(g_buffer')].message.kind = "ExecuteOrder"

\* C36: every order in the generator's inventory has quantity >= 1; every
\* ExecuteOrder the generator emits refers to an inventory order and has a
\* fill quantity between 1 and that order's quantity; the inventory quantity
\* goes down by the fill, and the order leaves the inventory iff the fill
\* equals its quantity.
C36_ExecuteNeverOverfills ==
    /\ [](\A id \in DOMAIN g_sim.active_orders_ :
              g_sim.active_orders_[id].quantity >= 1)
    /\ [][ EmitsExecute =>
             LET msg == g_buffer'[Len(g_buffer')].message
                 id == msg.order_id
                 before == g_sim.active_orders_
                 after == g_sim'.active_orders_
             IN  /\ id \in DOMAIN before
                 /\ 1 <= msg.exec_quantity
                 /\ msg.exec_quantity <= before[id].quantity
                 /\ id \notin DOMAIN after
                        <=> msg.exec_quantity = before[id].quantity
                 /\ id \in DOMAIN after =>
                        after[id] = [before[id] EXCEPT
                                        !.quantity = @ - msg.exec_quantity]
                 /\ \A other \in DOMAIN before \ {id} :
                        other \in DOMAIN after /\ after[other] = before[other]
           ]_vars

\* C36 witness: an ExecuteOrder for the whole quantity of the only order has
\* been emitted and the inventory is empty.
C36_Witness ==
    /\ Len(GenStream) = 2
    /\ GenStream[1].message.kind = "AddOrder"
    /\ GenStream[2].message.kind = "ExecuteOrder"
    /\ GenStream[2].message.exec_quantity = GenStream[1].message.quantity
    /\ g_sim.active_orders_ = EmptyMap
    /\ g_sim.active_order_ids_ = <<>>

\* the datagrams handed to the transport so far
C37_Datagrams == {g_sent[i] : i \in 1 .. Len(g_sent)}

\* C37: every datagram the generator hands to the transport is non-empty and
\* at most 1400 bytes long, hence within RawPacket's 1500 bytes; and every
\* event generated while batching adds exactly one whole record to the send
\* buffer within its 1400 bytes: encode never fails for lack of room, so no
\* record is cut short or carried over.
C37_DatagramsAreWholeRecords ==
    /\ [](\A dg \in C37_Datagrams :
              /\ dg # <<>>
              /\ OffsetOf(dg) <= SimBufferSize
              /\ OffsetOf(dg) <= RawPacket_MAX_SIZE)
    /\ [][ g_total_sent' = g_total_sent + 1 =>
             /\ Len(g_buffer') = Len(g_buffer) + 1
             /\ SubSeq(g_buffer', 1, Len(g_buffer)) = g_buffer
             /\ OffsetOf(g_buffer') <= SimBufferSize ]_vars

\* C37 witness: a datagram of 1378 bytes, the longest the batching loop can
\* build, has been sent and a further record is in the buffer.
C37_Witness ==
    /\ Len(g_sent) = 1
    /\ OffsetOf(g_sent[1]) = 1378
    /\ g_buffer # <<>>
    /\ g_pc = "batch"

(***************************************************************************)
(* Claim about the books of other symbols (SpecBook)                       *)
(***************************************************************************)
\* the symbols whose book the call just made may touch: the symbol given to
\* add_order, or the symbol of the stored order the other calls name
TouchedSymbols ==
    IF b_last'.op = "add" THEN {b_last'.symbol}
    ELSE IF b_last'.id \in DOMAIN b_store THEN {b_store[b_last'.id].symbol}
    ELSE {}

\* C38: add_order, cancel_order, execute_order and replace_order on an order
\* of symbol S leave the book of every other symbol as it was: it exists
\* after the call iff it existed before, with the same levels, quantities and
\* order counts, and the same answers to the top-of-book queries.
C38_OtherBooksUnchanged ==
    [][ b_last'.op \in {"add", "cancel", "execute", "replace"} =>
          \A sym \in BookSymbols \ TouchedSymbols :
              /\ sym \in DOMAIN b_books' <=> sym \in DOMAIN b_books
              /\ sym \in DOMAIN b_books =>
                     /\ b_books'[sym] = b_books[sym]
                     /\ best_bid_price(b_books'[sym]) = best_bid_price(b_books[sym])
                     /\ best_ask_price(b_books'[sym]) = best_ask_price(b_books[sym])
                     /\ get_bid_levels(b_books'[sym], MaxDepth)
                            = get_bid_levels(b_books[sym], MaxDepth)
                     /\ get_ask_levels(b_books'[sym], MaxDepth)
                            = get_ask_levels(b_books[sym], MaxDepth) ]_vars

\* C38 witness: an order of one symbol has just been added while a book of
\* another symbol, holding an order, already existed.
C38_Witness ==
    /\ b_last.op = "add"
    /\ b_last.id \in DOMAIN b_store
    /\ Cardinality(DOMAIN b_books) = 2
    /\ \E id \in DOMAIN b_store :
           /\ b_store[id].symbol # b_last.symbol
           /\ LevelQuantity(b_books, b_store[id].symbol, b_store[id].side,
                            b_store[id].price) > 0

(***************************************************************************)
(* Claim about the end of the parser's walk (SpecWalkFair)                 *)
(***************************************************************************)
\* C39: the parser's walk over a datagram ends, whatever its bytes and its
\* length: the offset never passes the datagram's length, every pass of the
\* loop that does not leave it moves the offset forward by at least one byte,
\* and the walk is eventually over.
C39_WalkTerminates ==
    /\ [](w_offset <= Len(w_data))
    /\ [][ (w_pc = "walk" /\ w_pc' = "walk") => w_offset' >= w_offset + 1 ]_vars
    /\ <>(w_pc = "done")

\* C39 witness: a record whose length field is 1 was decoded, the offset
\* moved by that one byte, and the walk ended at the next header.
C39_Witness ==
    /\ w_pc = "done"
    /\ w_bad = [what |-> "length", rec |-> 1, value |-> 1]
    /\ Len(w_out) = 1
    /\ w_offset = 1

====
